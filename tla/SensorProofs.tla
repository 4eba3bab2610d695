---------------------------- MODULE SensorProofs ----------------------------
(***************************************************************************)
(* Theorems about four services that stand alone, for every bound: the     *)
(* accessibility client (UiaClient) and its circuit breaker, the trigger   *)
(* machine, the enrichment throttle and the model downloads.               *)
(***************************************************************************)
EXTENDS UiaClient, TriggerMachine, ThrottleGovernor, ModelDownload, FiniteSetTheorems, TLAPS

-----------------------------------------------------------------------------
(* The accessibility client.  A walk in flight has a request; while a call   *)
(* spawns it holds the gate and the slot is empty, so the client it brings   *)
(* is the only one; and until a save races it, it spawns with the settings   *)
(* in force.                                                                 *)

WalksHaveRequests == \A k \in Clients : uiaClient[k].inFlight => uiaClient[k].running # "none"

UTypes == UiaTypeOK /\ WalksHaveRequests

SpawnerAlone ==
    \A r \in Recognizers : recognize[r].pc = "spawn" => respawnGate = r /\ uiaSlot = 0

SettingsFollowed ==
    ~raced =>
        /\ uiaSlot # 0 => config = [enabled |-> TRUE, version |-> uiaClient[uiaSlot].version]
        /\ \A r \in Recognizers :
              /\ recognize[r].pc \in {"slot", "gate", "spawn"} => config.enabled
              /\ recognize[r].pc = "spawn" => recognize[r].version = config.version

UInv == OneClient /\ SpawnerAlone /\ SettingsFollowed

CallRecord == [pc : {"idle", "slot", "gate", "spawn", "ask", "reply"},
         client : 0..MaxClients, at : 0..MaxTicks, version : 0..MaxSaves]
Client == [state : {"unborn", "live", "closing", "gone", "dead"},
           version : 0..MaxSaves, queued : Recognizers \cup {"none"},
           running : Recognizers \cup {"none"}, inFlight : BOOLEAN]
Breaker == [bad : 0..Threshold, openUntil : 0..(MaxTicks + Cooldown)]

\* The breaker after an outcome has its type,
LEMMA RecordedOK ==
    ASSUME breaker \in Breaker, NEW signal \in {"good", "bad", "neutral"}, NEW now \in 0..MaxTicks
    PROVE  Recorded(signal, now) \in Breaker
<1>1. 0 \in 0..Threshold /\ 0 \in 0..(MaxTicks + Cooldown) /\ now + Cooldown \in 0..(MaxTicks + Cooldown)
  BY UiaAssumption
<1> DEFINE base == IF breaker.openUntil # 0 /\ now >= breaker.openUntil
                   THEN [bad |-> 0, openUntil |-> 0] ELSE breaker
<1>2. base \in Breaker
  BY <1>1 DEF Breaker
<1>3. base.bad + 1 < Threshold => base.bad + 1 \in 0..Threshold
  BY <1>2, UiaAssumption DEF Breaker
<1>4. CASE signal = "neutral"
  BY <1>2, <1>4 DEF Recorded
<1>5. CASE signal = "good"
  BY <1>1, <1>2, <1>5 DEF Recorded, Breaker
<1>6. CASE signal = "bad"
  BY <1>1, <1>2, <1>3, <1>6, UiaAssumption DEF Recorded, Breaker
<1> QED BY <1>4, <1>5, <1>6

\* as have a call at rest and a client not yet spawned.
LEMMA RestingOK ==
    /\ Resting \in CallRecord /\ Unborn \in Client
    /\ \A r \in Recognizers : Resting.pc # "spawn"
BY UiaAssumption DEF Resting, Unborn, CallRecord, Client

\* What a call leaves when it has heard its outcome:
LEMMA HeardTypes ==
    ASSUME UTypes, NEW r \in Recognizers, NEW signal \in {"good", "bad", "neutral"}, Heard(r, signal)
    PROVE  /\ recognize' = [recognize EXCEPT ![r] = Resting]
           /\ recognize' \in [Recognizers -> CallRecord]
           /\ breaker' \in Breaker
           /\ badAt' \in Seq(0..MaxTicks)
           /\ UNCHANGED <<config, uiaSlot, respawnGate, spawnFailed, clock, walks, raced>>
<1>1. recognize \in [Recognizers -> CallRecord] /\ breaker \in Breaker /\ badAt \in Seq(0..MaxTicks)
  BY DEF UTypes, UiaTypeOK, CallRecord, Breaker
<1>2. recognize[r].at \in 0..MaxTicks
  BY <1>1 DEF CallRecord
<1>3. breaker' \in Breaker
  BY <1>1, <1>2, RecordedOK DEF Heard
<1>4. badAt' \in Seq(0..MaxTicks)
  <2>1. <<>> \in Seq(0..MaxTicks) /\ Append(badAt, recognize[r].at) \in Seq(0..MaxTicks)
    BY <1>1, <1>2
  <2>2. badAt' \in {badAt, <<>>, Append(badAt, recognize[r].at)}
    BY Zenon DEF Heard
  <2> QED BY <1>1, <2>1, <2>2
<1> QED BY <1>1, <1>3, <1>4, RestingOK DEF Heard

\* the types again, also when the answer comes from the client's thread.
LEMMA ReplyTypes ==
    ASSUME UTypes, NEW k \in Clients, NEW signal \in {"good", "bad", "neutral"}, Reply(k, signal),
           UNCHANGED panics, uiaClient[k].running # "none"
    PROVE  UTypes'
<1>1. uiaClient \in [Clients -> Client]
  BY DEF UTypes, UiaTypeOK, Client
<1>2. uiaClient[k].running \in Recognizers
  BY <1>1 DEF Client
<1>3. uiaClient' = [uiaClient EXCEPT ![k].running = "none", ![k].inFlight = FALSE]
  BY DEF Reply
<1>4. uiaClient' \in [Clients -> Client] /\ WalksHaveRequests'
  BY ZenonT(40), <1>1, <1>3 DEF Client, UTypes, WalksHaveRequests
<1>5. CASE Heard(uiaClient[k].running, signal)
  <2>1. /\ recognize' \in [Recognizers -> CallRecord] /\ breaker' \in Breaker /\ badAt' \in Seq(0..MaxTicks)
        /\ UNCHANGED <<config, uiaSlot, respawnGate, spawnFailed, clock, walks, raced>>
    BY <1>2, <1>5, HeardTypes
  <2> QED BY <1>4, <2>1 DEF UTypes, UiaTypeOK, CallRecord, Client, Breaker
<1>6. CASE UNCHANGED <<config, uiaSlot, respawnGate, spawnFailed, recognize, breaker, clock, walks,
                       raced, badAt>>
  BY <1>4, <1>6 DEF UTypes, UiaTypeOK, Client
<1> QED BY <1>5, <1>6 DEF Reply

\* The types hold at the start,
LEMMA UiaTypeInit == UiaInit => UTypes
<1> SUFFICES ASSUME UiaInit PROVE UTypes
  OBVIOUS
<1>1. uiaClient \in [Clients -> Client] /\ recognize \in [Recognizers -> CallRecord] /\ WalksHaveRequests
  BY RestingOK DEF UiaInit, WalksHaveRequests, Unborn
<1>2. breaker \in Breaker /\ badAt \in Seq(0..MaxTicks)
  BY UiaAssumption DEF UiaInit, Breaker
<1>3. /\ config \in [enabled : BOOLEAN, version : 0..MaxSaves] /\ uiaSlot \in 0..MaxClients
      /\ clock \in 0..MaxTicks /\ walks \in 0..MaxWalks /\ panics \in 0..MaxPanics
  BY UiaAssumption DEF UiaInit
<1> QED BY <1>1, <1>2, <1>3 DEF UiaInit, UTypes, UiaTypeOK, CallRecord, Client, Breaker

\* and through every step.
LEMMA UiaTypeStep == UTypes /\ [UiaNext]_uiaVars => UTypes'
<1> SUFFICES ASSUME UTypes, [UiaNext]_uiaVars PROVE UTypes'
  OBVIOUS
<1>0. /\ uiaClient \in [Clients -> Client] /\ recognize \in [Recognizers -> CallRecord]
      /\ breaker \in Breaker /\ config \in [enabled : BOOLEAN, version : 0..MaxSaves]
      /\ uiaSlot \in 0..MaxClients /\ walks \in 0..MaxWalks /\ panics \in 0..MaxPanics
  BY DEF UTypes, UiaTypeOK, CallRecord, Client, Breaker
<1>calls. ASSUME recognize' \in [Recognizers -> CallRecord], respawnGate' \in Recognizers \cup {"free"},
                 spawnFailed' \in BOOLEAN, walks' \in 0..MaxWalks,
                 UNCHANGED <<config, uiaSlot, uiaClient, breaker, clock, panics, raced, badAt>>
          PROVE  UTypes'
  BY <1>calls DEF UTypes, UiaTypeOK, WalksHaveRequests, CallRecord
<1>threads. ASSUME uiaClient' \in [Clients -> Client], WalksHaveRequests',
                   UNCHANGED <<config, uiaSlot, respawnGate, spawnFailed, recognize, breaker, clock,
                               walks, panics, raced, badAt>>
            PROVE  UTypes'
  BY <1>threads DEF UTypes, UiaTypeOK, Client
<1>1. CASE UNCHANGED uiaVars
  BY <1>1 DEF uiaVars, UTypes, UiaTypeOK, WalksHaveRequests
<1>2. ASSUME NEW r \in Recognizers, Begin(r) PROVE UTypes'
  <2>1. [Resting EXCEPT !.pc = "slot", !.at = clock, !.version = config.version] \in CallRecord
    BY <1>0, RestingOK DEF CallRecord, UTypes, UiaTypeOK
  <2>2. recognize' \in [Recognizers -> CallRecord]
    BY <1>0, <1>2, <2>1 DEF Begin
  <2>3. walks' \in 0..MaxWalks
    BY <1>0, <1>2, UiaAssumption DEF Begin
  <2> QED BY <1>2, <2>2, <2>3, <1>calls DEF Begin, UTypes, UiaTypeOK
<1>moves. ASSUME NEW r \in Recognizers, NEW pc \in {"gate", "spawn", "ask", "reply"}
          PROVE  /\ [recognize[r] EXCEPT !.pc = pc] \in CallRecord
                 /\ \A c \in 0..MaxClients : [recognize[r] EXCEPT !.pc = pc, !.client = c] \in CallRecord
                 /\ \A v \in 0..MaxSaves : [recognize[r] EXCEPT !.pc = pc, !.version = v] \in CallRecord
  BY <1>0 DEF CallRecord
<1>3. ASSUME NEW r \in Recognizers, ReadSlot(r) PROVE UTypes'
  <2>1. recognize' \in [Recognizers -> CallRecord]
    BY <1>0, <1>3, <1>moves, RestingOK DEF ReadSlot
  <2> QED BY <1>3, <2>1, <1>calls DEF ReadSlot, UTypes, UiaTypeOK
<1>4. ASSUME NEW r \in Recognizers, EnterGate(r) PROVE UTypes'
  <2>1. recognize' \in [Recognizers -> CallRecord]
    <3>1. CASE recognize' = [recognize EXCEPT ![r].pc = "spawn", ![r].version = config.version]
      <4>1. recognize' = [recognize EXCEPT ![r] =
                             [recognize[r] EXCEPT !.pc = "spawn", !.version = config.version]]
        BY <1>0, <3>1 DEF CallRecord
      <4> QED BY <1>0, <1>moves, <4>1
    <3>2. CASE recognize' = [recognize EXCEPT ![r] =
                  IF uiaSlot # 0 THEN [@ EXCEPT !.pc = "ask", !.client = uiaSlot] ELSE Resting]
      BY <1>0, <1>moves, <3>2, RestingOK
    <3> QED BY <1>4, <3>1, <3>2 DEF EnterGate
  <2> QED BY <1>4, <2>1, <1>calls DEF EnterGate, UTypes, UiaTypeOK
<1>5. ASSUME NEW r \in Recognizers, Spawned(r) PROVE UTypes'
  <2>1. PICK k \in Clients :
          /\ uiaClient' = [uiaClient EXCEPT ![k].state = "live", ![k].version = recognize[r].version]
          /\ uiaSlot' = k
          /\ recognize' = [recognize EXCEPT ![r].pc = "ask", ![r].client = k]
    BY <1>5 DEF Spawned
  <2>2. uiaClient' \in [Clients -> Client] /\ WalksHaveRequests'
    <3> DEFINE born == [uiaClient[k] EXCEPT !.state = "live", !.version = recognize[r].version]
    <3>1. uiaClient' = [uiaClient EXCEPT ![k] = born]
      BY <1>0, <2>1 DEF Client
    <3>2. born \in Client /\ born.inFlight = uiaClient[k].inFlight /\ born.running = uiaClient[k].running
      BY ZenonT(40), <1>0 DEF Client, CallRecord
    <3> HIDE DEF born
    <3> QED BY <1>0, <3>1, <3>2 DEF UTypes, WalksHaveRequests
  <2>3. recognize' \in [Recognizers -> CallRecord] /\ uiaSlot' \in 0..MaxClients
    <3>1. k \in 0..MaxClients
      BY UiaAssumption DEF Clients
    <3>2. recognize' = [recognize EXCEPT ![r] = [recognize[r] EXCEPT !.pc = "ask", !.client = k]]
      BY <1>0, <2>1 DEF CallRecord
    <3>3. [recognize[r] EXCEPT !.pc = "ask", !.client = k] \in CallRecord
      BY <1>moves, <3>1
    <3> QED BY <1>0, <2>1, <3>1, <3>2, <3>3
  <2> QED BY <1>5, <2>2, <2>3 DEF Spawned, UTypes, UiaTypeOK, CallRecord, Client
<1>6. ASSUME NEW r \in Recognizers, SpawnFails(r) PROVE UTypes'
  <2>1. recognize' \in [Recognizers -> CallRecord]
    BY <1>0, <1>6, RestingOK DEF SpawnFails
  <2> QED BY <1>6, <2>1, <1>calls DEF SpawnFails, UTypes, UiaTypeOK
<1>7. ASSUME NEW r \in Recognizers, Ask(r) PROVE UTypes'
  <2>1. CASE Heard(r, "neutral") /\ UNCHANGED uiaClient
    <3>1. /\ recognize' \in [Recognizers -> CallRecord] /\ breaker' \in Breaker /\ badAt' \in Seq(0..MaxTicks)
          /\ UNCHANGED <<config, uiaSlot, respawnGate, spawnFailed, clock, walks, raced>>
      BY <2>1, HeardTypes
    <3> QED BY <1>7, <2>1, <3>1 DEF Ask, UTypes, UiaTypeOK, WalksHaveRequests, CallRecord, Breaker
  <2>2. CASE /\ uiaClient' = [uiaClient EXCEPT ![recognize[r].client].queued = r]
             /\ recognize' = [recognize EXCEPT ![r].pc = "reply"]
             /\ UNCHANGED <<config, uiaSlot, respawnGate, spawnFailed, breaker, clock, walks,
                            raced, badAt>>
    <3>1. uiaClient' \in [Clients -> Client] /\ WalksHaveRequests'
      BY ZenonT(40), <1>0, <2>2 DEF Client, UTypes, WalksHaveRequests
    <3>2. recognize' \in [Recognizers -> CallRecord]
      BY <1>0, <2>2, <1>moves
    <3> QED BY <1>7, <2>2, <3>1, <3>2 DEF Ask, UTypes, UiaTypeOK, CallRecord, Client
  <2> QED BY <1>7, <2>1, <2>2 DEF Ask
<1>8. ASSUME NEW r \in Recognizers, HardTimeout(r) PROVE UTypes'
  <2>1. /\ recognize' \in [Recognizers -> CallRecord] /\ breaker' \in Breaker /\ badAt' \in Seq(0..MaxTicks)
        /\ UNCHANGED <<config, uiaSlot, respawnGate, spawnFailed, clock, walks, raced>>
    BY <1>8, HeardTypes DEF HardTimeout
  <2> QED BY <1>8, <2>1 DEF HardTimeout, UTypes, UiaTypeOK, WalksHaveRequests, CallRecord, Breaker
<1>9. ASSUME NEW k \in Clients, WorkerTakes(k) PROVE UTypes'
  <2>1. uiaClient' \in [Clients -> Client] /\ WalksHaveRequests'
    BY <1>0, <1>9 DEF WorkerTakes, Client, UTypes, WalksHaveRequests
  <2> QED BY <1>9, <2>1, <1>threads DEF WorkerTakes
<1>10. ASSUME NEW k \in Clients, WalkStarts(k) PROVE UTypes'
  <2>1. CASE Reply(k, "neutral")
    BY <1>10, <2>1, ReplyTypes DEF WalkStarts
  <2>2. CASE /\ uiaClient' = [uiaClient EXCEPT ![k].inFlight = TRUE]
             /\ UNCHANGED <<config, uiaSlot, respawnGate, spawnFailed, recognize, breaker, clock,
                            walks, raced, badAt>>
    <3>1. uiaClient' \in [Clients -> Client] /\ WalksHaveRequests'
      BY ZenonT(40), <1>0, <1>10, <2>2 DEF WalkStarts, Client, UTypes, WalksHaveRequests
    <3> QED BY <1>10, <2>2, <3>1, <1>threads DEF WalkStarts
  <2> QED BY <1>10, <2>1, <2>2 DEF WalkStarts
<1>11. ASSUME NEW k \in Clients, NEW signal \in {"good", "bad", "neutral"}, WalkEnds(k, signal) PROVE UTypes'
  BY <1>11, ReplyTypes DEF WalkEnds, UTypes, WalksHaveRequests
<1>12. ASSUME NEW k \in Clients, WalkPanics(k) PROVE UTypes'
  <2>1. uiaClient' = [uiaClient EXCEPT ![k].running = "none", ![k].inFlight = FALSE, ![k].queued = "none",
                            ![k].state = IF @ = "live" THEN "dead" ELSE "gone"]
    BY <1>12 DEF WalkPanics
  <2>2. uiaClient' \in [Clients -> Client] /\ WalksHaveRequests'
    <3> DEFINE fallen == [uiaClient[k] EXCEPT !.running = "none", !.inFlight = FALSE, !.queued = "none",
                              !.state = IF uiaClient[k].state = "live" THEN "dead" ELSE "gone"]
    <3>1. uiaClient' = [uiaClient EXCEPT ![k] = fallen]
      BY <1>0, <2>1 DEF Client
    <3>2. fallen \in Client /\ fallen.inFlight = FALSE
      BY <1>0 DEF Client
    <3> HIDE DEF fallen
    <3> QED BY <1>0, <3>1, <3>2 DEF UTypes, WalksHaveRequests
  <2>3. recognize' \in [Recognizers -> CallRecord]
    BY <1>0, <1>12, RestingOK DEF WalkPanics
  <2>5. panics' \in 0..MaxPanics
    BY <1>0, <1>12, UiaAssumption DEF WalkPanics
  <2>4. breaker' \in Breaker
    <3> DEFINE lapsed == {r \in {q \in Recognizers : recognize[q].pc = "reply" /\ recognize[q].client = k} :
                            Recorded("neutral", recognize[r].at) # breaker}
    <3>1. lapsed # {} => (CHOOSE r \in lapsed : TRUE) \in Recognizers
      OBVIOUS
    <3>2. \A r \in Recognizers : Recorded("neutral", recognize[r].at) \in Breaker
      BY <1>0, RecordedOK DEF CallRecord
    <3>3. breaker' = IF lapsed = {} THEN breaker
                     ELSE Recorded("neutral", recognize[CHOOSE r \in lapsed : TRUE].at)
      BY <1>12 DEF WalkPanics
    <3> HIDE DEF lapsed
    <3> QED BY <1>0, <3>1, <3>2, <3>3
  <2> QED BY <1>12, <2>2, <2>3, <2>4, <2>5 DEF WalkPanics, UTypes, UiaTypeOK, CallRecord, Client, Breaker
<1>13. ASSUME NEW k \in Clients, WorkerExits(k) PROVE UTypes'
  <2>1. uiaClient' \in [Clients -> Client] /\ WalksHaveRequests'
    BY <1>0, <1>13 DEF WorkerExits, Client, UTypes, WalksHaveRequests
  <2> QED BY <1>13, <2>1, <1>threads DEF WorkerExits
<1>14. ASSUME Teardown PROVE uiaClient' \in [Clients -> Client] /\ WalksHaveRequests' /\ uiaSlot' \in 0..MaxClients
  <2>1. \A k \in Clients : [uiaClient[k] EXCEPT !.state = IF @ = "dead" THEN "gone" ELSE "closing"] \in Client
    BY <1>0 DEF Client
  <2>2. \A k \in Clients : uiaClient'[k].inFlight = uiaClient[k].inFlight /\ uiaClient'[k].running = uiaClient[k].running
    BY <1>0, <1>14 DEF Teardown, Client
  <2> QED BY <1>0, <1>14, <2>1, <2>2, UiaAssumption DEF Teardown, UTypes, WalksHaveRequests
<1>15. ASSUME ApplySettings PROVE UTypes'
  <2>1. config' \in [enabled : BOOLEAN, version : 0..MaxSaves] /\ raced' \in BOOLEAN
    BY <1>0, <1>15, UiaAssumption DEF ApplySettings, Spawning, Spawns
  <2> QED BY <1>15, <1>14, <2>1 DEF ApplySettings, UTypes, UiaTypeOK, Client
<1>16. ASSUME CaptureStopped PROVE UTypes'
  BY <1>16, <1>14 DEF CaptureStopped, UTypes, UiaTypeOK, Client, Spawns
<1>17. ASSUME UiaTick PROVE UTypes'
  BY <1>17, UiaAssumption DEF UiaTick, UTypes, UiaTypeOK, WalksHaveRequests
<1> QED BY <1>1, <1>2, <1>3, <1>4, <1>5, <1>6, <1>7, <1>8, <1>9, <1>10, <1>11, <1>12, <1>13,
           <1>15, <1>16, <1>17 DEF UiaNext

\* A step of a call or a thread that brings no client and reads no settings.
LEMMA UiaKept ==
    ASSUME UTypes, UInv, UNCHANGED <<config, uiaSlot, respawnGate, raced>>,
           \A k \in Clients : /\ uiaClient'[k].state = "live" => uiaClient[k].state = "live"
                              /\ uiaClient'[k].version = uiaClient[k].version,
           \A r \in Recognizers : \/ recognize'[r] = recognize[r]
                                  \/ recognize'[r].pc \in {"idle", "ask", "reply"}
                                  \/ recognize'[r].pc = "gate" /\ recognize[r].pc = "slot"
    PROVE  UInv'
<1>1. uiaSlot # 0 => uiaSlot \in Clients
  BY UiaAssumption DEF UTypes, UiaTypeOK, Clients
<1>2. OneClient'
  BY DEF UInv, OneClient
<1>3. SpawnerAlone'
  BY DEF UInv, SpawnerAlone
<1>4. SettingsFollowed'
  BY <1>1 DEF UInv, SettingsFollowed
<1> QED BY <1>2, <1>3, <1>4 DEF UInv

\* A teardown empties the slot and leaves one client at most.
LEMMA TeardownClears == ASSUME UTypes, UInv, Teardown PROVE OneClient' /\ uiaSlot' = 0
<1>1. uiaClient \in [Clients -> Client]
  BY DEF UTypes, UiaTypeOK, Client
<1>2. \A k \in Clients : uiaClient'[k].state # "live"
  BY <1>1 DEF Teardown, UInv, OneClient, Client
<1> QED BY <1>2 DEF Teardown, OneClient

\* UInv is inductive, given the types,
LEMMA UiaStep == UTypes /\ UInv /\ [UiaNext]_uiaVars => UInv'
<1> SUFFICES ASSUME UTypes, UInv, [UiaNext]_uiaVars PROVE UInv'
  OBVIOUS
<1>0. /\ uiaClient \in [Clients -> Client] /\ recognize \in [Recognizers -> CallRecord]
      /\ uiaSlot \in 0..MaxClients /\ Resting.pc = "idle" /\ 0 \notin Clients
      /\ config \in [enabled : BOOLEAN, version : 0..MaxSaves]
  <2>1. 0 \notin Clients
    BY UiaAssumption DEF Clients
  <2> QED BY <2>1 DEF UTypes, UiaTypeOK, CallRecord, Client, Resting
<1>1. CASE UNCHANGED uiaVars
  BY <1>1, UiaKept DEF uiaVars
<1>2. ASSUME NEW r \in Recognizers, Begin(r) PROVE UInv'
  <2> DEFINE c == [Resting EXCEPT !.pc = "slot", !.at = clock, !.version = config.version]
  <2>1. recognize' = [recognize EXCEPT ![r] = c] /\ config.enabled
        /\ UNCHANGED <<config, uiaSlot, uiaClient, respawnGate, raced>>
    BY <1>2 DEF Begin
  <2>2. c.pc = "slot"
    BY DEF Resting
  <2> HIDE DEF c
  <2>3. OneClient' /\ SpawnerAlone'
    BY <1>0, <2>1, <2>2 DEF UInv, OneClient, SpawnerAlone
  <2>4. SettingsFollowed'
    BY <1>0, <2>1, <2>2 DEF UInv, SettingsFollowed
  <2> QED BY <2>3, <2>4 DEF UInv
<1>3. ASSUME NEW r \in Recognizers, ReadSlot(r) PROVE UInv'
  <2>1. recognize'[r].pc \in {"idle", "ask"} \/ (recognize'[r].pc = "gate" /\ recognize[r].pc = "slot")
    BY <1>0, <1>3 DEF ReadSlot, CallRecord
  <2>2. \A q \in Recognizers : q # r => recognize'[q] = recognize[q]
    BY <1>0, <1>3 DEF ReadSlot
  <2> QED BY <1>3, <2>1, <2>2, UiaKept DEF ReadSlot
<1>4. ASSUME NEW r \in Recognizers, EnterGate(r) PROVE UInv'
  <2>1. \A q \in Recognizers : q # r => recognize'[q] = recognize[q]
    BY <1>0, <1>4 DEF EnterGate
  <2>2. CASE uiaSlot = 0 /\ ~spawnFailed
    <3>1. /\ recognize'[r].pc = "spawn" /\ recognize'[r].version = config.version
          /\ recognize[r].pc = "gate" /\ respawnGate = "free" /\ respawnGate' = r
          /\ UNCHANGED <<config, uiaSlot, uiaClient, raced>>
      BY <1>0, <1>4, <2>2 DEF EnterGate, CallRecord
    <3>2. OneClient' /\ SpawnerAlone'
      BY <2>1, <2>2, <3>1, UiaAssumption DEF UInv, OneClient, SpawnerAlone
    <3>3. SettingsFollowed'
      BY <2>1, <2>2, <3>1 DEF UInv, SettingsFollowed
    <3> QED BY <3>2, <3>3 DEF UInv
  <2>3. CASE ~ (uiaSlot = 0 /\ ~spawnFailed)
    <3>1. recognize'[r].pc \in {"idle", "ask"} /\ UNCHANGED <<config, uiaSlot, uiaClient, respawnGate, raced>>
      BY ZenonT(40), <1>0, <1>4, <2>3 DEF EnterGate, CallRecord
    <3> QED BY <2>1, <3>1, UiaKept
  <2> QED BY <2>2, <2>3
<1>5. ASSUME NEW r \in Recognizers, Spawned(r) PROVE UInv'
  <2>1. PICK k \in Clients :
          /\ uiaClient' = [uiaClient EXCEPT ![k].state = "live", ![k].version = recognize[r].version]
          /\ uiaSlot' = k
          /\ recognize' = [recognize EXCEPT ![r].pc = "ask", ![r].client = k]
    BY <1>5 DEF Spawned
  <2>2. /\ recognize[r].pc = "spawn" /\ uiaSlot = 0 /\ respawnGate = r
        /\ respawnGate' = "free" /\ UNCHANGED <<config, raced>>
    BY <1>5 DEF Spawned, UInv, SpawnerAlone
  <2>3. /\ \A j \in Clients : j # k => uiaClient'[j] = uiaClient[j]
        /\ uiaClient'[k].version = recognize[r].version
        /\ \A q \in Recognizers : q # r => recognize'[q] = recognize[q]
        /\ recognize'[r].pc = "ask"
    BY <1>0, <2>1 DEF Client, CallRecord
  <2>4. OneClient' /\ SpawnerAlone'
    BY <1>0, <2>1, <2>2, <2>3 DEF UInv, OneClient, SpawnerAlone
  <2>5. ~raced => config = [enabled |-> TRUE, version |-> recognize[r].version]
    BY <1>0, <2>2 DEF UInv, SettingsFollowed
  <2>6. SettingsFollowed'
    BY <2>1, <2>2, <2>3, <2>5 DEF UInv, SettingsFollowed
  <2> QED BY <2>4, <2>6 DEF UInv
<1>6. ASSUME NEW r \in Recognizers, SpawnFails(r) PROVE UInv'
  <2>1. /\ recognize'[r] = Resting /\ \A q \in Recognizers : q # r => recognize'[q] = recognize[q]
        /\ UNCHANGED <<config, uiaSlot, uiaClient, raced>>
        /\ respawnGate = r
    BY <1>0, <1>6 DEF SpawnFails, UInv, SpawnerAlone
  <2>2. OneClient' /\ SpawnerAlone'
    BY <1>0, <2>1 DEF UInv, OneClient, SpawnerAlone
  <2>3. SettingsFollowed'
    BY <1>0, <2>1 DEF UInv, SettingsFollowed
  <2> QED BY <2>2, <2>3 DEF UInv
<1>heard. ASSUME NEW r \in Recognizers, NEW signal \in {"good", "bad", "neutral"}, Heard(r, signal)
          PROVE  /\ \A q \in Recognizers : recognize'[q] = recognize[q] \/ recognize'[q].pc = "idle"
                 /\ UNCHANGED <<config, uiaSlot, respawnGate, raced>>
  BY <1>0, <1>heard, HeardTypes
<1>7. ASSUME NEW r \in Recognizers, Ask(r) PROVE UInv'
  <2>1. CASE Heard(r, "neutral") /\ UNCHANGED uiaClient
    BY <1>heard, <2>1, UiaKept
  <2>2. CASE /\ uiaClient' = [uiaClient EXCEPT ![recognize[r].client].queued = r]
             /\ recognize' = [recognize EXCEPT ![r].pc = "reply"]
             /\ UNCHANGED <<config, uiaSlot, respawnGate, raced>>
    <3>1. /\ \A q \in Recognizers : recognize'[q] = recognize[q] \/ recognize'[q].pc = "reply"
          /\ \A k \in Clients : /\ uiaClient'[k].state = uiaClient[k].state
                                /\ uiaClient'[k].version = uiaClient[k].version
      BY <1>0, <2>2 DEF CallRecord, Client
    <3> QED BY <2>2, <3>1, UiaKept
  <2> QED BY <1>7, <2>1, <2>2 DEF Ask
<1>8. ASSUME NEW r \in Recognizers, HardTimeout(r) PROVE UInv'
  BY <1>8, <1>heard, UiaKept DEF HardTimeout
<1>reply. ASSUME NEW k \in Clients, NEW signal \in {"good", "bad", "neutral"}, Reply(k, signal),
                 uiaClient[k].running # "none"
          PROVE  UInv'
  <2>1. uiaClient[k].running \in Recognizers
    BY <1>0, <1>reply DEF Client
  <2>2. \A j \in Clients : /\ uiaClient'[j].state = uiaClient[j].state
                           /\ uiaClient'[j].version = uiaClient[j].version
    BY <1>0, <1>reply DEF Reply, Client
  <2>3. CASE Heard(uiaClient[k].running, signal)
    BY <1>heard, <2>1, <2>2, <2>3, UiaKept
  <2>4. CASE UNCHANGED <<config, uiaSlot, respawnGate, recognize, raced>>
    BY <2>2, <2>4, UiaKept
  <2> QED BY <1>reply, <2>3, <2>4 DEF Reply
<1>9. ASSUME NEW k \in Clients, WorkerTakes(k) \/ WorkerExits(k) PROVE UInv'
  <2>1. \A j \in Clients : /\ uiaClient'[j].state = "live" => uiaClient[j].state = "live"
                           /\ uiaClient'[j].version = uiaClient[j].version
    BY <1>0, <1>9 DEF WorkerTakes, WorkerExits, Client
  <2> QED BY <1>9, <2>1, UiaKept DEF WorkerTakes, WorkerExits
<1>10. ASSUME NEW k \in Clients, WalkStarts(k) PROVE UInv'
  <2>1. CASE Reply(k, "neutral")
    BY <1>10, <1>reply, <2>1 DEF WalkStarts
  <2>2. CASE /\ uiaClient' = [uiaClient EXCEPT ![k].inFlight = TRUE]
             /\ UNCHANGED <<config, uiaSlot, respawnGate, recognize, raced>>
    <3>1. \A j \in Clients : /\ uiaClient'[j].state = uiaClient[j].state
                             /\ uiaClient'[j].version = uiaClient[j].version
      BY <1>0, <2>2 DEF Client
    <3> QED BY <2>2, <3>1, UiaKept
  <2> QED BY <1>10, <2>1, <2>2 DEF WalkStarts
<1>11. ASSUME NEW k \in Clients, NEW signal \in {"good", "bad", "neutral"}, WalkEnds(k, signal) PROVE UInv'
  BY <1>11, <1>reply DEF WalkEnds, UTypes, WalksHaveRequests
<1>12. ASSUME NEW k \in Clients, WalkPanics(k) PROVE UInv'
  <2>1. \A j \in Clients : /\ uiaClient'[j].state = "live" => uiaClient[j].state = "live"
                           /\ uiaClient'[j].version = uiaClient[j].version
    BY <1>0, <1>12 DEF WalkPanics, Client
  <2>2. \A r \in Recognizers : recognize'[r] = recognize[r] \/ recognize'[r].pc = "idle"
    BY <1>0, <1>12 DEF WalkPanics
  <2> QED BY <1>12, <2>1, <2>2, UiaKept DEF WalkPanics
<1>13. ASSUME ApplySettings PROVE UInv'
  <2>1. OneClient' /\ uiaSlot' = 0
    BY <1>13, TeardownClears DEF ApplySettings
  <2>2. SpawnerAlone'
    BY <1>13, <2>1 DEF ApplySettings, UInv, SpawnerAlone
  <2>3. SettingsFollowed'
    <3> SUFFICES ASSUME ~raced', NEW r \in Recognizers, recognize[r].pc \in {"slot", "gate", "spawn"}
                 PROVE  config'.enabled /\ recognize[r].pc # "spawn"
      BY <1>13, <2>1 DEF ApplySettings, SettingsFollowed
    <3> QED BY <1>13 DEF ApplySettings, Spawning, Spawns
  <2> QED BY <2>1, <2>2, <2>3 DEF UInv
<1>14. ASSUME CaptureStopped PROVE UInv'
  <2>1. OneClient' /\ uiaSlot' = 0
    BY <1>14, TeardownClears DEF CaptureStopped
  <2>2. SpawnerAlone'
    BY <1>14, <2>1 DEF CaptureStopped, UInv, SpawnerAlone
  <2>3. SettingsFollowed'
    BY <1>14, <2>1 DEF CaptureStopped, UInv, SettingsFollowed, Spawns
  <2> QED BY <2>1, <2>2, <2>3 DEF UInv
<1>15. ASSUME UiaTick PROVE UInv'
  BY <1>15, UiaKept DEF UiaTick
<1> QED BY <1>1, <1>2, <1>3, <1>4, <1>5, <1>6, <1>7, <1>8, <1>9, <1>10, <1>11, <1>12, <1>13, <1>14,
           <1>15 DEF UiaNext

\* and holds at the start.
LEMMA UiaInitInv == UiaInit => UInv
BY DEF UiaInit, UInv, OneClient, SpawnerAlone, SettingsFollowed, Unborn, Resting

\* Type correctness of the accessibility client: the breaker's count stays within
\* Threshold and its opening within Cooldown of the clock.
THEOREM UiaTypesOK == UiaSpec => []UiaTypeOK
<1>1. UTypes => UiaTypeOK
  BY DEF UTypes
<1> QED BY <1>1, UiaTypeInit, UiaTypeStep, PTL DEF UiaSpec

\* src-tauri/src/lib.rs:2584, get_or_spawn_uia and teardown: whatever recognize
\* calls race at the gate, however spawns fail, threads panic and settings are
\* saved meanwhile, a client that still serves is the one in the slot, so the
\* next teardown reaches it.
THEOREM OneClientOnly == UiaSpec => []OneClient
<1>1. UInv => OneClient
  BY DEF UInv
<1> QED BY <1>1, UiaTypeInit, UiaTypeStep, UiaInitInv, UiaStep, PTL DEF UiaSpec

\* src-tauri/src/lib.rs:2602, apply_settings: the connected client has the
\* settings in force, and there is none when they turn UIA off, except after a
\* save that fell into a spawn or turned UIA off under a call past its check.
THEOREM SettingsHotApply == UiaSpec => []ClientHasLiveSettings
<1>1. UInv => ClientHasLiveSettings
  BY DEF UInv, SettingsFollowed, ClientHasLiveSettings
<1> QED BY <1>1, UiaTypeInit, UiaTypeStep, UiaInitInv, UiaStep, PTL DEF UiaSpec

-----------------------------------------------------------------------------
(* The breaker.  A burst is a run of the last bad walks no two of which are a *)
(* Cooldown apart.  Once the breaker has opened in it, or a Cooldown has      *)
(* passed, only the calls already under way can add to it; before that        *)
(* breaker.bad counts it, all but the walks heard while the breaker still was *)
(* open from before.                                                          *)

Walking == {r \in Recognizers : recognize[r].pc # "idle"}
NumCalls == Cardinality(Recognizers)
Fewer == IF NumCalls < Threshold THEN NumCalls ELSE Threshold
LastBad == Len(badAt)
Length(i) == LastBad + 1 - i

FarApart(i) == \E j, m \in i..LastBad : badAt[m] >= badAt[j] + Cooldown
SettledFrom(i) ==
    \E j \in i..LastBad : breaker.openUntil >= badAt[j] + Cooldown \/ clock >= badAt[j] + Cooldown
ComingAfter(i) == {r \in Walking : \A j \in i..LastBad : recognize[r].at < badAt[j] + Cooldown}
StaleWalks == {r \in Walking : recognize[r].at < breaker.openUntil}

BreakerFacts ==
    /\ \A r \in Walking : recognize[r].at <= clock
    /\ \A i \in 1..LastBad : badAt[i] <= clock
    /\ breaker.bad < Threshold

Bounded(i) ==
    /\ SettledFrom(i) => Length(i) + Cardinality(ComingAfter(i)) < Threshold + NumCalls + Fewer - 1
    /\ ~SettledFrom(i) /\ breaker.openUntil # 0 =>
          Length(i) <= breaker.bad /\ Length(i) + Cardinality(StaleWalks) < NumCalls
    /\ ~SettledFrom(i) /\ breaker.openUntil = 0 => Length(i) < breaker.bad + Fewer

BInv == BreakerFacts /\ (\A i \in 1..(LastBad + 1) : FarApart(i) \/ Bounded(i)) /\ SlowAppIsLeftAlone

\* The recognize calls are finite in number, and so is any part of them.
LEMMA CallsAreFinite ==
    /\ NumCalls \in Nat \ {0} /\ Fewer \in Nat \ {0} /\ Fewer <= NumCalls /\ Fewer <= Threshold
    /\ Threshold \in Nat \ {0} /\ Cooldown \in Nat \ {0}
    /\ \A S \in SUBSET Recognizers : IsFiniteSet(S) /\ Cardinality(S) \in Nat /\ Cardinality(S) <= NumCalls
    /\ \A S \in SUBSET Recognizers : \A T \in SUBSET S : Cardinality(T) <= Cardinality(S)
    /\ \A S \in SUBSET Recognizers : \A r \in S : \A T \in SUBSET (S \ {r}) :
          Cardinality(T) < Cardinality(S)
<1>1. NumCalls \in Nat \ {0}
  BY UiaAssumption, FS_CardinalityType, FS_EmptySet DEF NumCalls
<1>2. \A S \in SUBSET Recognizers : IsFiniteSet(S) /\ Cardinality(S) \in Nat /\ Cardinality(S) <= NumCalls
  BY UiaAssumption, FS_Subset, FS_CardinalityType DEF NumCalls
<1>3. \A S \in SUBSET Recognizers : \A T \in SUBSET S : Cardinality(T) <= Cardinality(S)
  BY <1>2, FS_Subset
<1>4. ASSUME NEW S \in SUBSET Recognizers, NEW r \in S, NEW T \in SUBSET (S \ {r})
      PROVE  Cardinality(T) < Cardinality(S)
  <2>1. IsFiniteSet(S \ {r}) /\ Cardinality(S \ {r}) = Cardinality(S) - 1
    BY <1>2, FS_RemoveElement
  <2>2. Cardinality(T) <= Cardinality(S \ {r})
    BY <2>1, FS_Subset
  <2>3. Cardinality(S) \in Nat /\ Cardinality(T) \in Nat
    <3>1. T \in SUBSET Recognizers
      OBVIOUS
    <3> QED BY <1>2, <3>1
  <2> QED BY <2>1, <2>2, <2>3
<1> QED BY <1>1, <1>2, <1>3, <1>4, UiaAssumption DEF Fewer

\* The numbers of a state.
LEMMA BreakerNumbers ==
    ASSUME UTypes
    PROVE  /\ breaker.bad \in Nat /\ breaker.openUntil \in Nat /\ clock \in Nat
           /\ LastBad \in Nat /\ \A i \in 1..LastBad : badAt[i] \in Nat
           /\ \A r \in Recognizers : recognize[r].at \in Nat
<1>1. breaker \in Breaker /\ recognize \in [Recognizers -> CallRecord] /\ clock \in 0..MaxTicks
      /\ badAt \in Seq(0..MaxTicks)
  BY DEF UTypes, UiaTypeOK, Breaker, CallRecord
<1>2. LastBad \in Nat /\ \A i \in 1..LastBad : badAt[i] \in 0..MaxTicks
  <2> DEFINE S == 0..MaxTicks
  <2>1. badAt \in Seq(S)
    BY <1>1
  <2> HIDE DEF S
  <2>2. Len(badAt) \in Nat /\ \A i \in 1..Len(badAt) : badAt[i] \in S
    BY <2>1
  <2> QED BY <2>2 DEF S, LastBad
<1>3. breaker.bad \in 0..Threshold /\ breaker.openUntil \in 0..(MaxTicks + Cooldown)
  BY <1>1 DEF Breaker
<1>4. \A r \in Recognizers : recognize[r].at \in 0..MaxTicks
  BY <1>1 DEF CallRecord
<1> QED BY <1>1, <1>2, <1>3, <1>4, UiaAssumption

\* After a step the breaker's counters and instants are numbers.
LEMMA BreakerNumbersAfter ==
    ASSUME UTypes'
    PROVE  /\ breaker'.bad \in Nat /\ breaker'.openUntil \in Nat /\ clock' \in Nat
           /\ LastBad' \in Nat /\ \A i \in 1..LastBad' : badAt'[i] \in Nat
           /\ \A r \in Recognizers : recognize'[r].at \in Nat
<1>1. breaker' \in Breaker /\ recognize' \in [Recognizers -> CallRecord] /\ clock' \in 0..MaxTicks
      /\ badAt' \in Seq(0..MaxTicks)
  BY DEF UTypes, UiaTypeOK, Breaker, CallRecord
<1>2. LastBad' \in Nat /\ \A i \in 1..LastBad' : badAt'[i] \in 0..MaxTicks
  <2> DEFINE S == 0..MaxTicks
  <2>1. badAt' \in Seq(S)
    BY <1>1
  <2> HIDE DEF S
  <2>2. Len(badAt') \in Nat /\ \A i \in 1..Len(badAt') : badAt'[i] \in S
    BY <2>1
  <2> QED BY <2>2 DEF S, LastBad
<1>3. breaker'.bad \in 0..Threshold /\ breaker'.openUntil \in 0..(MaxTicks + Cooldown)
  BY <1>1 DEF Breaker
<1>4. \A r \in Recognizers : recognize'[r].at \in 0..MaxTicks
  BY <1>1 DEF CallRecord
<1> QED BY <1>1, <1>2, <1>3, <1>4, UiaAssumption

\* Calls may end, time may pass and the breaker be found lapsed; a call begins
\* only while it is not open.
LEMMA QuietBreaker ==
    ASSUME UTypes, UTypes', BInv, UNCHANGED badAt, clock' >= clock,
           \A r \in Walking' : \/ r \in Walking /\ recognize'[r].at = recognize[r].at
                               \/ recognize'[r].at = clock /\ breaker.openUntil <= clock,
           \/ breaker' = breaker
           \/ /\ breaker.openUntil # 0 /\ breaker.openUntil <= clock
              /\ breaker' = [bad |-> 0, openUntil |-> 0]
    PROVE  BInv'
<1>0. /\ breaker.bad \in Nat /\ breaker.openUntil \in Nat /\ clock \in Nat /\ clock' \in Nat
      /\ LastBad \in Nat /\ \A i \in 1..LastBad : badAt[i] \in Nat
      /\ \A r \in Recognizers : recognize[r].at \in Nat /\ recognize'[r].at \in Nat
      /\ breaker'.bad \in Nat /\ breaker'.openUntil \in Nat
  BY BreakerNumbers, BreakerNumbersAfter
<1>1. SlowAppIsLeftAlone'
  BY DEF BInv, SlowAppIsLeftAlone
<1>2. BreakerFacts'
  <2>1. \A r \in Walking' : recognize'[r].at <= clock'
    BY <1>0 DEF BInv, BreakerFacts, Walking
  <2>2. \A i \in 1..LastBad' : badAt'[i] <= clock'
    BY <1>0 DEF BInv, BreakerFacts, LastBad
  <2>3. breaker'.bad < Threshold
    BY CallsAreFinite DEF BInv, BreakerFacts
  <2> QED BY <2>1, <2>2, <2>3 DEF BreakerFacts
<1>3. ASSUME NEW i \in 1..(LastBad + 1), ~FarApart(i)' PROVE Bounded(i)'
  <2>1. LastBad' = LastBad /\ Length(i)' = Length(i) /\ Length(i) \in Nat
    BY <1>0 DEF LastBad, Length
  <2>2. Bounded(i)
    BY <1>3, <2>1 DEF BInv, FarApart
  <2>3. /\ ComingAfter(i) \in SUBSET Recognizers /\ ComingAfter(i)' \in SUBSET Recognizers
        /\ StaleWalks \in SUBSET Recognizers /\ StaleWalks' \in SUBSET Recognizers
    BY DEF ComingAfter, StaleWalks, Walking
  <2>4. /\ Cardinality(ComingAfter(i)) \in Nat /\ Cardinality(ComingAfter(i)') \in Nat
        /\ Cardinality(ComingAfter(i)') <= NumCalls
        /\ Cardinality(StaleWalks) \in Nat /\ Cardinality(StaleWalks') \in Nat
    BY <2>3, CallsAreFinite
  <2>5. SettledFrom(i) => SettledFrom(i)' /\ ComingAfter(i)' \subseteq ComingAfter(i)
    <3> SUFFICES ASSUME SettledFrom(i) PROVE SettledFrom(i)' /\ ComingAfter(i)' \subseteq ComingAfter(i)
      OBVIOUS
    <3>1. PICK j \in i..LastBad : breaker.openUntil >= badAt[j] + Cooldown \/ clock >= badAt[j] + Cooldown
      BY DEF SettledFrom
    <3>2. badAt[j] \in Nat
      BY <1>0
    <3>3. badAt' = badAt
      OBVIOUS
    <3>4. breaker'.openUntil >= badAt[j] + Cooldown \/ clock' >= badAt[j] + Cooldown
      BY <1>0, <3>1, <3>2, CallsAreFinite
    <3>5. SettledFrom(i)'
      BY <2>1, <3>3, <3>4 DEF SettledFrom
    <3>6. ASSUME NEW r \in ComingAfter(i)' PROVE r \in ComingAfter(i)
      <4>1. r \in Recognizers /\ recognize'[r].at < badAt[j] + Cooldown
        BY <2>1, <3>3 DEF ComingAfter, Walking
      <4>2. r \in Walking /\ recognize'[r].at = recognize[r].at
        BY <1>0, <3>1, <3>2, <4>1, CallsAreFinite DEF ComingAfter
      <4> QED BY <2>1, <3>3, <4>2 DEF ComingAfter
    <3> QED BY <3>5, <3>6
  <2>6. breaker' = breaker => StaleWalks' \subseteq StaleWalks
    BY <1>0 DEF StaleWalks, Walking
  <2>7. CASE SettledFrom(i)
    BY <2>1, <2>2, <2>3, <2>4, <2>5, <2>7, CallsAreFinite DEF Bounded
  <2>8. CASE ~SettledFrom(i) /\ SettledFrom(i)'
    <3>1. Length(i) < Threshold + Fewer - 1
      BY <1>0, <2>1, <2>2, <2>4, <2>8, CallsAreFinite DEF Bounded, BInv, BreakerFacts
    <3> QED BY <2>1, <2>4, <2>8, <3>1, CallsAreFinite DEF Bounded
  <2>9. CASE ~SettledFrom(i) /\ ~SettledFrom(i)'
    <3>1. CASE breaker' = breaker
      BY <2>1, <2>2, <2>3, <2>4, <2>6, <2>9, <3>1, <1>0, CallsAreFinite DEF Bounded
    <3>2. CASE breaker.openUntil # 0 /\ breaker' = [bad |-> 0, openUntil |-> 0]
      <4>1. Length(i) < Fewer
        BY <1>0, <2>1, <2>2, <2>4, <2>9, <3>2, CallsAreFinite DEF Bounded, BInv, BreakerFacts, Fewer
      <4> QED BY <2>1, <2>9, <3>2, <4>1, CallsAreFinite DEF Bounded
    <3> QED BY <3>1, <3>2
  <2> QED BY <2>7, <2>8, <2>9
<1> QED BY <1>1, <1>2, <1>3 DEF BInv, LastBad

\* A walk was good: the count starts again, the breaker stays open if it was.
LEMMA GoodBreaker ==
    ASSUME UTypes, UTypes', BInv, UNCHANGED clock, badAt' = <<>>,
           \A r \in Walking' : r \in Walking /\ recognize'[r].at = recognize[r].at,
           breaker'.bad = 0, breaker'.openUntil \in {0, breaker.openUntil}
    PROVE  BInv'
<1>0. /\ breaker.openUntil \in Nat /\ breaker.bad \in Nat /\ LastBad \in Nat /\ LastBad' = 0
      /\ \A r \in Recognizers : recognize[r].at \in Nat /\ recognize'[r].at \in Nat
  BY BreakerNumbers, BreakerNumbersAfter DEF LastBad
<1>1. SlowAppIsLeftAlone'
  BY <1>0, CallsAreFinite DEF SlowAppIsLeftAlone, NumCalls, Fewer, LastBad
<1>2. BreakerFacts'
  BY <1>0, CallsAreFinite DEF BInv, BreakerFacts, LastBad
<1>3. ASSUME NEW i \in 1..1 PROVE Bounded(i)'
  <2>1. i = 1 /\ Length(i)' = 0 /\ ~SettledFrom(i)'
    BY <1>0 DEF Length, SettledFrom
  <2>2. CASE breaker'.openUntil = 0
    BY <2>1, <2>2, CallsAreFinite DEF Bounded
  <2>3. CASE breaker'.openUntil = breaker.openUntil /\ breaker.openUntil # 0
    <3>1. ~FarApart(LastBad + 1) /\ ~SettledFrom(LastBad + 1) /\ Length(LastBad + 1) = 0
      BY <1>0 DEF FarApart, SettledFrom, Length
    <3>2. Cardinality(StaleWalks) < NumCalls
      <4>1. Bounded(LastBad + 1)
        <5>1. LastBad + 1 \in 1..(LastBad + 1)
          BY <1>0
        <5> QED BY <3>1, <5>1 DEF BInv
      <4>2. StaleWalks \in SUBSET Recognizers
        BY DEF StaleWalks, Walking
      <4>3. Cardinality(StaleWalks) \in Nat
        BY <4>2, CallsAreFinite
      <4> QED BY <2>3, <3>1, <4>1, <4>3, CallsAreFinite DEF Bounded
    <3>3. StaleWalks \in SUBSET Recognizers /\ StaleWalks' \in SUBSET StaleWalks
      BY <2>3 DEF StaleWalks, Walking
    <3>4. /\ Cardinality(StaleWalks) \in Nat /\ Cardinality(StaleWalks') \in Nat
          /\ Cardinality(StaleWalks') <= Cardinality(StaleWalks)
      <4>1. StaleWalks' \in SUBSET Recognizers
        BY <3>3
      <4> QED BY <3>3, <4>1, CallsAreFinite
    <3> QED BY <2>1, <2>3, <3>2, <3>4, CallsAreFinite DEF Bounded
  <2> QED BY <2>2, <2>3
<1> QED BY <1>0, <1>1, <1>2, <1>3 DEF BInv

\* What a bad walk leaves of the breaker.
Lapsed(now) == breaker.openUntil # 0 /\ now >= breaker.openUntil
CountBefore(now) == IF Lapsed(now) THEN 0 ELSE breaker.bad

\* A bad outcome adds one to the count, or opens the breaker at the threshold.
LEMMA BadRecorded ==
    ASSUME UTypes, NEW now
    PROVE  /\ CountBefore(now) + 1 >= Threshold =>
                 Recorded("bad", now) = [bad |-> 0, openUntil |-> now + Cooldown]
           /\ CountBefore(now) + 1 < Threshold =>
                 Recorded("bad", now) = [bad |-> CountBefore(now) + 1,
                      openUntil |-> IF Lapsed(now) THEN 0 ELSE breaker.openUntil]
<1>1. breaker \in Breaker
  BY DEF UTypes, UiaTypeOK, Breaker
<1>2. breaker = [bad |-> breaker.bad, openUntil |-> breaker.openUntil]
  BY <1>1 DEF Breaker
<1>3. breaker.bad \in Nat /\ Threshold \in Nat
  BY BreakerNumbers, CallsAreFinite
<1>4. CASE Lapsed(now)
  BY <1>3, <1>4 DEF Recorded, Lapsed, CountBefore
<1>5. CASE ~Lapsed(now)
  <2>1. Recorded("bad", now) = IF breaker.bad + 1 >= Threshold
                               THEN [bad |-> 0, openUntil |-> now + Cooldown]
                               ELSE [breaker EXCEPT !.bad = @ + 1]
    BY <1>5 DEF Recorded, Lapsed
  <2>2. [breaker EXCEPT !.bad = @ + 1] = [bad |-> breaker.bad + 1, openUntil |-> breaker.openUntil]
    BY <1>1 DEF Breaker
  <2> QED BY <1>3, <1>5, <2>1, <2>2 DEF CountBefore
<1> QED BY <1>4, <1>5

\* A walk was bad.  The call that ends is one of those still to come in a
\* settled burst, one of the stale in a burst that began while the breaker was
\* open, and counted by the breaker in any other.
LEMMA BadBreaker ==
    ASSUME UTypes, UTypes', BInv, UNCHANGED clock, NEW r \in Walking,
           badAt' = Append(badAt, recognize[r].at),
           Walking' = Walking \ {r}, \A q \in Walking' : recognize'[q].at = recognize[q].at,
           breaker' = Recorded("bad", recognize[r].at)
    PROVE  BInv'
<1> DEFINE a == recognize[r].at
<1>0. /\ breaker.bad \in Nat /\ breaker.openUntil \in Nat /\ clock \in Nat
      /\ LastBad \in Nat /\ \A i \in 1..LastBad : badAt[i] \in Nat
      /\ \A q \in Recognizers : recognize[q].at \in Nat /\ recognize'[q].at \in Nat
      /\ breaker'.bad \in Nat /\ breaker'.openUntil \in Nat
      /\ breaker.bad < Threshold
  BY BreakerNumbers, BreakerNumbersAfter DEF BInv, BreakerFacts
<1>1. r \in Recognizers /\ a \in Nat /\ a <= clock
  BY <1>0 DEF Walking, BInv, BreakerFacts
<1>2. /\ LastBad' = LastBad + 1 /\ badAt'[LastBad + 1] = a
      /\ \A j \in 1..LastBad : badAt'[j] = badAt[j]
  BY DEF UTypes, UiaTypeOK, LastBad
<1>3. /\ CountBefore(a) \in Nat /\ CountBefore(a) <= breaker.bad
      /\ CountBefore(a) + 1 >= Threshold => breaker'.bad = 0 /\ breaker'.openUntil = a + Cooldown
      /\ CountBefore(a) + 1 < Threshold =>
            /\ breaker'.bad = CountBefore(a) + 1
            /\ breaker'.openUntil = IF Lapsed(a) THEN 0 ELSE breaker.openUntil
  BY <1>0, BadRecorded DEF CountBefore
<1> HIDE DEF a
<1>4. BreakerFacts'
  <2>1. \A q \in Walking' : recognize'[q].at <= clock'
    BY DEF BInv, BreakerFacts
  <2>2. ASSUME NEW i \in 1..LastBad' PROVE badAt'[i] <= clock'
    <3>1. i \in 1..LastBad \/ i = LastBad + 1
      BY <1>0, <1>2
    <3>2. \A j \in 1..LastBad : badAt[j] <= clock
      BY DEF BInv, BreakerFacts
    <3> QED BY <1>1, <1>2, <3>1, <3>2
  <2>3. breaker'.bad < Threshold
    BY <1>0, <1>3, CallsAreFinite
  <2> QED BY <2>1, <2>2, <2>3 DEF BreakerFacts
<1>5. StaleWalks' \in SUBSET (Recognizers \ {r}) /\ Cardinality(StaleWalks') \in Nat /\ Cardinality(StaleWalks') < NumCalls
  <2>1. StaleWalks' \in SUBSET (Recognizers \ {r})
    BY DEF StaleWalks, Walking
  <2>2. StaleWalks' \in SUBSET Recognizers /\ Recognizers \in SUBSET Recognizers
    BY <2>1
  <2> QED BY <1>1, <2>1, <2>2, CallsAreFinite DEF NumCalls
<1>6. ASSUME NEW i \in 1..(LastBad + 1), ~FarApart(i)' PROVE Bounded(i)'
  <2>1. Length(i) \in Nat /\ Length(i)' = Length(i) + 1 /\ i \in Nat
    BY <1>0, <1>2 DEF Length
  <2>2. \A j \in i..LastBad : a < badAt[j] + Cooldown /\ badAt[j] < a + Cooldown /\ badAt[j] \in Nat
    <3> SUFFICES ASSUME NEW j \in i..LastBad
                 PROVE  a < badAt[j] + Cooldown /\ badAt[j] < a + Cooldown /\ badAt[j] \in Nat
      OBVIOUS
    <3>1. /\ j \in 1..LastBad /\ j \in i..LastBad' /\ LastBad' \in i..LastBad'
      BY <1>0, <1>2
    <3>2. ~(badAt'[LastBad'] >= badAt'[j] + Cooldown) /\ ~(badAt'[j] >= badAt'[LastBad'] + Cooldown)
      BY <1>6, <3>1 DEF FarApart
    <3>3. badAt'[j] = badAt[j] /\ badAt'[LastBad'] = a /\ badAt[j] \in Nat
      BY <1>0, <1>2, <3>1
    <3> QED BY <1>1, <3>2, <3>3, CallsAreFinite
  <2>3. ~FarApart(i)
    <3> SUFFICES ASSUME NEW j \in i..LastBad, NEW m \in i..LastBad, badAt[m] >= badAt[j] + Cooldown PROVE FALSE
      BY DEF FarApart
    <3>1. j \in 1..LastBad /\ m \in 1..LastBad /\ j \in i..LastBad' /\ m \in i..LastBad'
      BY <1>0, <1>2
    <3> QED BY <1>2, <1>6, <3>1 DEF FarApart
  <2>4. Bounded(i)
    BY <2>3 DEF BInv
  <2>5. /\ ComingAfter(i) \in SUBSET Recognizers /\ ComingAfter(i)' \in SUBSET (Recognizers \ {r})
        /\ StaleWalks \in SUBSET Recognizers
    BY DEF ComingAfter, StaleWalks, Walking
  <2>6. /\ Cardinality(ComingAfter(i)) \in Nat /\ Cardinality(ComingAfter(i)') \in Nat
        /\ Cardinality(ComingAfter(i)') < NumCalls /\ Cardinality(StaleWalks) \in Nat
    <3>1. ComingAfter(i)' \in SUBSET Recognizers /\ Recognizers \in SUBSET Recognizers
      BY <2>5
    <3> QED BY <1>1, <2>5, <3>1, CallsAreFinite DEF NumCalls
  <2>7. CASE SettledFrom(i)
    <3>1. ComingAfter(i)' \in SUBSET (ComingAfter(i) \ {r})
      <4>1. ASSUME NEW j \in i..LastBad PROVE j \in i..LastBad' /\ badAt'[j] = badAt[j]
        <5>1. j \in 1..LastBad
          BY <1>0
        <5>2. j \in i..LastBad'
          BY <1>0, <1>2
        <5> QED BY <1>2, <5>1, <5>2
      <4> QED BY <4>1 DEF ComingAfter
    <3>2. r \in ComingAfter(i)
      BY <2>2 DEF ComingAfter, a
    <3>3. Cardinality(ComingAfter(i)') < Cardinality(ComingAfter(i))
      BY <2>5, <3>1, <3>2, CallsAreFinite
    <3>4. SettledFrom(i)'
      <4>1. PICK j \in i..LastBad : breaker.openUntil >= badAt[j] + Cooldown \/ clock >= badAt[j] + Cooldown
        BY <2>7 DEF SettledFrom
      <4>2. j \in i..LastBad' /\ badAt'[j] = badAt[j] /\ badAt[j] \in Nat /\ a < badAt[j] + Cooldown
        <5>1. j \in 1..LastBad
          BY <1>0
        <5>2. j \in i..LastBad'
          BY <1>0, <1>2
        <5> QED BY <1>2, <2>2, <5>1, <5>2
      <4>3. LastBad' \in i..LastBad' /\ badAt'[LastBad'] = a
        BY <1>0, <1>2
      <4>4. CASE CountBefore(a) + 1 >= Threshold
        <5>1. breaker'.openUntil >= badAt'[LastBad'] + Cooldown
          BY <1>1, <1>3, <4>3, <4>4, CallsAreFinite
        <5> QED BY <4>3, <5>1 DEF SettledFrom
      <4>5. CASE CountBefore(a) + 1 < Threshold
        <5>1. ~Lapsed(a) \/ clock >= badAt[j] + Cooldown
          BY SMTT(30), <1>0, <1>1, <4>1, <4>2, CallsAreFinite DEF Lapsed
        <5>2. breaker'.openUntil >= badAt'[j] + Cooldown \/ clock' >= badAt'[j] + Cooldown
          BY <1>3, <4>1, <4>2, <4>5, <5>1
        <5> QED BY <4>2, <5>2 DEF SettledFrom
      <4> QED BY <1>3, <4>4, <4>5, CallsAreFinite
    <3> QED BY SMTT(30), <2>1, <2>4, <2>6, <2>7, <3>3, <3>4, CallsAreFinite DEF Bounded
  <2>8. CASE ~SettledFrom(i)
    <3>1. Length(i) < breaker.bad + Fewer
      <4>1. Length(i) <= breaker.bad \/ Length(i) < breaker.bad + Fewer
        BY <2>4, <2>8 DEF Bounded
      <4> QED BY SMTT(30), <1>0, <2>1, <4>1, CallsAreFinite
    <3>2. CASE SettledFrom(i)'
      BY SMTT(30), <1>0, <2>1, <2>6, <3>1, <3>2, CallsAreFinite DEF Bounded
    <3>3. CASE ~SettledFrom(i)'
      <4>1. CountBefore(a) + 1 < Threshold
        <5> SUFFICES ASSUME ~(CountBefore(a) + 1 < Threshold) PROVE FALSE
          OBVIOUS
        <5>1. LastBad' \in i..LastBad' /\ breaker'.openUntil >= badAt'[LastBad'] + Cooldown
          BY <1>0, <1>1, <1>2, <1>3, CallsAreFinite
        <5> QED BY <3>3, <5>1 DEF SettledFrom
      <4>2. CASE Lapsed(a)
        <5>1. Length(i) < Fewer
          BY <1>0, <2>1, <2>4, <2>6, <2>8, <4>2, CallsAreFinite DEF Bounded, Fewer, Lapsed
        <5>2. breaker'.openUntil = 0 /\ breaker'.bad = 1
          BY <1>3, <4>1, <4>2 DEF CountBefore
        <5> QED BY <2>1, <3>3, <5>1, <5>2, CallsAreFinite DEF Bounded
      <4>3. CASE ~Lapsed(a) /\ breaker.openUntil # 0
        <5>1. r \in StaleWalks
          BY <1>0, <1>1, <4>3 DEF StaleWalks, Lapsed, a
        <5>2. breaker'.openUntil = breaker.openUntil /\ breaker'.bad = breaker.bad + 1
          BY <1>3, <4>1, <4>3 DEF CountBefore
        <5>3. StaleWalks' \in SUBSET (StaleWalks \ {r})
          BY <5>2 DEF StaleWalks
        <5>4. Cardinality(StaleWalks') < Cardinality(StaleWalks)
          BY <2>5, <5>1, <5>3, CallsAreFinite
        <5>5. Length(i) <= breaker.bad /\ Length(i) + Cardinality(StaleWalks) < NumCalls
          BY <2>4, <2>8, <4>3 DEF Bounded
        <5>6. Length(i)' <= breaker'.bad /\ Length(i)' + Cardinality(StaleWalks') < NumCalls
          BY SMTT(30), <1>0, <1>5, <2>1, <2>6, <5>2, <5>4, <5>5, CallsAreFinite
        <5> QED BY <3>3, <4>3, <5>2, <5>6 DEF Bounded
      <4>4. CASE ~Lapsed(a) /\ breaker.openUntil = 0
        <5>1. breaker'.openUntil = 0 /\ breaker'.bad = breaker.bad + 1
          BY <1>3, <4>1, <4>4 DEF CountBefore
        <5>2. Length(i)' < breaker'.bad + Fewer
          BY <1>0, <2>1, <3>1, <5>1, CallsAreFinite
        <5> QED BY <3>3, <5>1, <5>2 DEF Bounded
      <4> QED BY <4>2, <4>3, <4>4
    <3> QED BY <3>2, <3>3
  <2> QED BY <2>7, <2>8
<1>7. ASSUME NEW i \in {LastBad + 2} PROVE Bounded(i)'
  <2>1. Length(i)' = 0 /\ ~SettledFrom(i)'
    BY <1>0, <1>2 DEF Length, SettledFrom
  <2> QED BY <1>0, <1>5, <2>1, CallsAreFinite DEF Bounded
<1>8. ASSUME NEW i \in 1..(LastBad + 1), ~FarApart(i)' PROVE Length(i)' < Threshold + NumCalls + Fewer - 1
  <2>1. Bounded(i)' /\ Length(i)' \in Nat
    BY <1>0, <1>2, <1>6, <1>8 DEF Length
  <2>2. ComingAfter(i)' \in SUBSET Recognizers
    BY DEF ComingAfter, Walking
  <2>3. Cardinality(ComingAfter(i)') \in Nat
    BY <2>2, CallsAreFinite
  <2>4. breaker'.bad < Threshold
    BY <1>4 DEF BreakerFacts
  <2> QED BY SMTT(30), <1>0, <1>5, <2>1, <2>3, <2>4, CallsAreFinite DEF Bounded
<1>9. SlowAppIsLeftAlone'
  <2> DEFINE b == Threshold + NumCalls + Fewer - 1
  <2>b. b \in Nat \ {0}
    BY CallsAreFinite
  <2>1. \A i \in 1..Len(badAt) : i + b - 1 <= Len(badAt) =>
           \E j, m \in i..(i + b - 1) : badAt[m] >= badAt[j] + Cooldown
    BY DEF BInv, SlowAppIsLeftAlone, NumCalls, Fewer
  <2> HIDE DEF b
  <2>2. ASSUME NEW i \in 1..Len(badAt'), i + b - 1 <= Len(badAt')
        PROVE  \E j, m \in i..(i + b - 1) : badAt'[m] >= badAt'[j] + Cooldown
    <3>1. i \in 1..(LastBad + 1) /\ i + b - 1 <= LastBad + 1 /\ i \in Nat
      BY <1>0, <1>2, <2>2 DEF LastBad
    <3>2. CASE i + b - 1 <= LastBad
      <4>1. i \in 1..Len(badAt) /\ i + b - 1 <= Len(badAt)
        BY <1>0, <2>b, <3>1, <3>2 DEF LastBad
      <4>2. PICK j \in i..(i + b - 1), m \in i..(i + b - 1) : badAt[m] >= badAt[j] + Cooldown
        BY <2>1, <4>1
      <4>3. j \in 1..LastBad /\ m \in 1..LastBad
        BY <1>0, <2>b, <3>1, <3>2
      <4> QED BY <1>2, <4>2, <4>3
    <3>3. CASE i + b - 1 = LastBad + 1
      <4>1. Length(i)' = b
        BY <1>0, <1>2, <2>b, <3>1, <3>3 DEF Length
      <4>2. FarApart(i)'
        BY <1>8, <3>1, <4>1, <2>b DEF b
      <4>3. i + b - 1 = LastBad'
        BY <1>2, <3>3
      <4> QED BY <4>2, <4>3 DEF FarApart
    <3>4. i + b - 1 <= LastBad \/ i + b - 1 = LastBad + 1
      BY <1>0, <2>b, <3>1
    <3> QED BY <3>2, <3>3, <3>4
  <2> QED BY <2>2 DEF SlowAppIsLeftAlone, b, NumCalls, Fewer
<1>10. ASSUME NEW i \in 1..(LastBad' + 1) PROVE (FarApart(i) \/ Bounded(i))'
  <2>1. i \in 1..(LastBad + 1) \/ i \in {LastBad + 2}
    BY <1>0, <1>2
  <2> QED BY <1>6, <1>7, <2>1
<1> QED BY <1>4, <1>9, <1>10 DEF BInv

\* A walk is heard, whatever its end.
LEMMA HeardBursts ==
    ASSUME UTypes, UTypes', BInv, NEW r \in Recognizers, recognize[r].pc # "idle",
           NEW signal \in {"good", "bad", "neutral"}, Heard(r, signal)
    PROVE  BInv'
<1>0. /\ breaker.openUntil \in Nat /\ breaker.bad \in Nat /\ clock \in Nat
      /\ recognize[r].at \in Nat /\ r \in Walking /\ recognize[r].at <= clock
  BY BreakerNumbers DEF Walking, BInv, BreakerFacts
<1>1. /\ recognize' = [recognize EXCEPT ![r] = Resting] /\ recognize \in [Recognizers -> CallRecord]
      /\ UNCHANGED clock
  <2>1. recognize \in [Recognizers -> CallRecord]
    BY DEF UTypes, UiaTypeOK, CallRecord
  <2>2. recognize' = [recognize EXCEPT ![r] = Resting] /\ UNCHANGED clock
    BY HeardTypes
  <2> QED BY <2>1, <2>2
<1>2. Walking' = Walking \ {r} /\ \A q \in Walking' : recognize'[q].at = recognize[q].at
  BY <1>1 DEF Walking, Resting
<1>3. breaker \in Breaker /\ breaker' = Recorded(signal, recognize[r].at)
  BY DEF UTypes, UiaTypeOK, Breaker, Heard
<1>4. CASE signal = "neutral"
  <2>1. badAt' = badAt
    BY <1>4 DEF Heard
  <2>2. \/ breaker' = breaker
        \/ /\ breaker.openUntil # 0 /\ breaker.openUntil <= clock
           /\ breaker' = [bad |-> 0, openUntil |-> 0]
    BY <1>0, <1>3, <1>4 DEF Recorded
  <2> QED BY <1>0, <1>1, <1>2, <2>1, <2>2, QuietBreaker
<1>5. CASE signal = "good"
  <2>1. badAt' = <<>>
    BY <1>5 DEF Heard
  <2>2. breaker'.bad = 0 /\ breaker'.openUntil \in {0, breaker.openUntil}
    BY <1>3, <1>5 DEF Recorded, Breaker
  <2>3. \A q \in Walking' : q \in Walking /\ recognize'[q].at = recognize[q].at
    BY <1>2
  <2> QED BY <1>1, <2>1, <2>2, <2>3, GoodBreaker
<1>6. CASE signal = "bad"
  <2>1. badAt' = Append(badAt, recognize[r].at)
    BY <1>6 DEF Heard
  <2> QED BY <1>0, <1>1, <1>2, <1>3, <1>6, <2>1, BadBreaker
<1> QED BY <1>4, <1>5, <1>6

\* Nothing has been heard at the start.
LEMMA BreakerInit == UiaInit => BInv
<1> SUFFICES ASSUME UiaInit PROVE BInv
  OBVIOUS
<1>1. LastBad = 0 /\ Walking = {} /\ breaker.bad = 0 /\ breaker.openUntil = 0
  BY DEF UiaInit, LastBad, Walking, Resting
<1>2. SlowAppIsLeftAlone /\ BreakerFacts
  BY <1>1, CallsAreFinite DEF SlowAppIsLeftAlone, BreakerFacts, LastBad
<1>3. ASSUME NEW i \in 1..1 PROVE Bounded(i)
  BY <1>1, CallsAreFinite DEF Bounded, SettledFrom, Length
<1> QED BY <1>1, <1>2, <1>3 DEF BInv

\* BInv is inductive, given the types.
LEMMA BreakerStep == UTypes /\ UTypes' /\ BInv /\ [UiaNext]_uiaVars => BInv'
<1> SUFFICES ASSUME UTypes, UTypes', BInv, [UiaNext]_uiaVars PROVE BInv'
  OBVIOUS
<1>0. /\ recognize \in [Recognizers -> CallRecord] /\ breaker.openUntil \in Nat /\ clock \in Nat
      /\ clock' \in Nat /\ uiaClient \in [Clients -> Client]
  BY BreakerNumbers, BreakerNumbersAfter DEF UTypes, UiaTypeOK, CallRecord, Client
<1>quiet. ASSUME UNCHANGED <<breaker, badAt>>, clock' >= clock,
                 \A r \in Walking' : r \in Walking /\ recognize'[r].at = recognize[r].at
          PROVE  BInv'
  BY <1>quiet, QuietBreaker
<1>same. ASSUME UNCHANGED <<breaker, badAt, clock, recognize>> PROVE BInv'
  BY <1>0, <1>same, <1>quiet DEF Walking
<1>1. CASE UNCHANGED uiaVars
  BY <1>1, <1>same DEF uiaVars
<1>2. ASSUME NEW r \in Recognizers, Begin(r) PROVE BInv'
  <2>1. /\ recognize' = [recognize EXCEPT ![r] = [Resting EXCEPT !.pc = "slot", !.at = clock,
                                                                 !.version = config.version]]
        /\ UNCHANGED <<breaker, badAt, clock>> /\ breaker.openUntil <= clock
    BY <1>0, <1>2 DEF Begin, IsOpen
  <2>2. \A q \in Walking' : \/ q \in Walking /\ recognize'[q].at = recognize[q].at
                            \/ recognize'[q].at = clock /\ breaker.openUntil <= clock
    BY <1>0, <2>1 DEF Walking, Resting
  <2> QED BY <1>0, <2>1, <2>2, QuietBreaker
<1>moves. ASSUME NEW r \in Recognizers, NEW c, recognize[r].pc # "idle",
                 recognize' = [recognize EXCEPT ![r] = c], c = Resting \/ c.at = recognize[r].at,
                 UNCHANGED <<breaker, badAt, clock>>
          PROVE  BInv'
  <2>1. \A q \in Walking' : q \in Walking /\ recognize'[q].at = recognize[q].at
    BY <1>0, <1>moves DEF Walking, Resting
  <2> QED BY <1>0, <1>moves, <2>1, <1>quiet
<1>3. ASSUME NEW r \in Recognizers, ReadSlot(r) PROVE BInv'
  <2> DEFINE c == IF uiaSlot # 0 THEN [recognize[r] EXCEPT !.pc = "ask", !.client = uiaSlot]
                  ELSE IF spawnFailed THEN Resting ELSE [recognize[r] EXCEPT !.pc = "gate"]
  <2>1. c = Resting \/ c.at = recognize[r].at
    BY <1>0 DEF CallRecord
  <2>2. recognize' = [recognize EXCEPT ![r] = c] /\ recognize[r].pc # "idle"
    BY <1>0, <1>3 DEF ReadSlot
  <2> HIDE DEF c
  <2> QED BY <1>3, <2>1, <2>2, <1>moves DEF ReadSlot
<1>4. ASSUME NEW r \in Recognizers, EnterGate(r) PROVE BInv'
  <2> DEFINE c == IF uiaSlot = 0 /\ ~spawnFailed
                  THEN [recognize[r] EXCEPT !.pc = "spawn", !.version = config.version]
                  ELSE IF uiaSlot # 0 THEN [recognize[r] EXCEPT !.pc = "ask", !.client = uiaSlot]
                  ELSE Resting
  <2>1. c = Resting \/ c.at = recognize[r].at
    BY <1>0 DEF CallRecord
  <2>2. recognize' = [recognize EXCEPT ![r] = c]
    <3>1. CASE uiaSlot = 0 /\ ~spawnFailed
      <4>1. recognize' = [recognize EXCEPT ![r].pc = "spawn", ![r].version = config.version]
        BY <1>4, <3>1 DEF EnterGate
      <4> QED BY <1>0, <3>1, <4>1 DEF CallRecord
    <3>2. CASE ~(uiaSlot = 0 /\ ~spawnFailed)
      BY <1>0, <1>4, <3>2 DEF EnterGate
    <3> QED BY <3>1, <3>2
  <2>3. recognize[r].pc # "idle" /\ UNCHANGED <<breaker, badAt, clock>>
    BY <1>4 DEF EnterGate
  <2> HIDE DEF c
  <2> QED BY <2>1, <2>2, <2>3, <1>moves
<1>5. ASSUME NEW r \in Recognizers, Spawned(r) PROVE BInv'
  <2>1. PICK k \in Clients : recognize' = [recognize EXCEPT ![r].pc = "ask", ![r].client = k]
    BY <1>5 DEF Spawned
  <2>2. recognize' = [recognize EXCEPT ![r] = [recognize[r] EXCEPT !.pc = "ask", !.client = k]]
    BY <1>0, <2>1 DEF CallRecord
  <2>3. [recognize[r] EXCEPT !.pc = "ask", !.client = k].at = recognize[r].at
    BY <1>0 DEF CallRecord
  <2> QED BY <1>5, <2>2, <2>3, <1>moves DEF Spawned
<1>6. ASSUME NEW r \in Recognizers, SpawnFails(r) PROVE BInv'
  BY <1>6, <1>moves DEF SpawnFails
<1>7. ASSUME NEW r \in Recognizers, Ask(r) PROVE BInv'
  <2>1. CASE Heard(r, "neutral")
    BY <1>7, <2>1, HeardBursts DEF Ask
  <2>2. CASE recognize' = [recognize EXCEPT ![r].pc = "reply"] /\ UNCHANGED <<breaker, badAt, clock>>
    <3>1. recognize' = [recognize EXCEPT ![r] = [recognize[r] EXCEPT !.pc = "reply"]]
      BY <1>0, <2>2
    <3>2. [recognize[r] EXCEPT !.pc = "reply"].at = recognize[r].at
      BY <1>0 DEF CallRecord
    <3>3. recognize[r].pc # "idle"
      BY <1>7 DEF Ask
    <3> QED BY <2>2, <3>1, <3>2, <3>3, <1>moves
  <2> QED BY <1>7, <2>1, <2>2 DEF Ask
<1>8. ASSUME NEW r \in Recognizers, HardTimeout(r) PROVE BInv'
  BY <1>8, HeardBursts DEF HardTimeout
<1>reply. ASSUME NEW k \in Clients, NEW signal \in {"good", "bad", "neutral"}, Reply(k, signal),
                 uiaClient[k].running # "none"
          PROVE  BInv'
  <2>1. uiaClient[k].running \in Recognizers
    BY <1>0, <1>reply DEF Client
  <2>2. CASE Waiting(k, uiaClient[k].running) /\ Heard(uiaClient[k].running, signal)
    BY <2>1, <2>2, HeardBursts DEF Waiting
  <2>3. CASE UNCHANGED <<config, uiaSlot, respawnGate, spawnFailed, recognize, breaker, clock, walks,
                         raced, badAt>>
    BY <2>3, <1>same
  <2> QED BY <1>reply, <2>2, <2>3 DEF Reply
<1>9. ASSUME NEW k \in Clients, WorkerTakes(k) \/ WorkerExits(k) PROVE BInv'
  BY <1>9, <1>same DEF WorkerTakes, WorkerExits
<1>10. ASSUME NEW k \in Clients, WalkStarts(k) PROVE BInv'
  <2>1. CASE UNCHANGED <<config, uiaSlot, respawnGate, spawnFailed, recognize, breaker, clock, walks,
                         raced, badAt>>
    BY <2>1, <1>same
  <2> QED BY <1>10, <2>1, <1>reply DEF WalkStarts
<1>11. ASSUME NEW k \in Clients, NEW signal \in {"good", "bad", "neutral"}, WalkEnds(k, signal)
       PROVE  BInv'
  BY <1>11, <1>reply DEF WalkEnds, UTypes, WalksHaveRequests
<1>12. ASSUME NEW k \in Clients, WalkPanics(k) PROVE BInv'
  <2>1. \A q \in Walking' : q \in Walking /\ recognize'[q].at = recognize[q].at
    BY <1>0, <1>12 DEF WalkPanics, Walking, Resting
  <2>2. UNCHANGED <<badAt, clock>>
    BY <1>12 DEF WalkPanics
  <2>3. \/ breaker' = breaker
        \/ /\ breaker.openUntil # 0 /\ breaker.openUntil <= clock
           /\ breaker' = [bad |-> 0, openUntil |-> 0]
    <3> DEFINE heard == {r \in Recognizers : recognize[r].pc = "reply" /\ recognize[r].client = k}
               lapsed == {r \in heard : Recorded("neutral", recognize[r].at) # breaker}
    <3>1. breaker' = IF lapsed = {} THEN breaker
                     ELSE Recorded("neutral", recognize[CHOOSE r \in lapsed : TRUE].at)
      BY <1>12 DEF WalkPanics
    <3>2. CASE lapsed # {}
      <4>1. PICK r \in lapsed : breaker' = Recorded("neutral", recognize[r].at)
        BY <3>1, <3>2
      <4>2. r \in Walking /\ recognize[r].at \in Nat /\ recognize[r].at <= clock
        BY <4>1, BreakerNumbers DEF Walking, BInv, BreakerFacts
      <4> QED BY <1>0, <4>1, <4>2 DEF Recorded
    <3> QED BY <3>1, <3>2
  <2> QED BY <1>0, <2>1, <2>2, <2>3, QuietBreaker
<1>13. CASE ApplySettings \/ CaptureStopped
  BY <1>13, <1>same DEF ApplySettings, CaptureStopped, Teardown
<1>14. CASE UiaTick
  <2>1. \A r \in Walking' : r \in Walking /\ recognize'[r].at = recognize[r].at
    BY <1>14 DEF UiaTick, Walking
  <2> QED BY <1>0, <1>14, <2>1, <1>quiet DEF UiaTick
<1> QED BY <1>1, <1>2, <1>3, <1>4, <1>5, <1>6, <1>7, <1>8, <1>9, <1>10, <1>11, <1>12, <1>13, <1>14
        DEF UiaNext

\* crates/uia/src/breaker.rs: of the walks of an app that answers slowly no more
\* than the threshold fall into a cooldown, but for those of calls the breaker
\* could not stop: whatever calls overlap, time out and are heard late.
THEOREM SlowAppsRest == UiaSpec => []SlowAppIsLeftAlone
<1>1. UiaInit => UTypes /\ BInv
  BY UiaTypeInit, BreakerInit
<1>2. UTypes /\ BInv /\ [UiaNext]_uiaVars => UTypes' /\ BInv'
  BY UiaTypeStep, BreakerStep
<1>3. BInv => SlowAppIsLeftAlone
  BY DEF BInv
<1> QED BY <1>1, <1>2, <1>3, PTL DEF UiaSpec

-----------------------------------------------------------------------------
(* The throttle.  With the governor off the level is zero, and it runs only  *)
(* with a probe; when the latest call began alone, only one is under way,    *)
(* and past its read it has the value stored, or the default.  A dwell began *)
(* after the last sample that spoils it and not before the level's own       *)
(* beginning.                                                                *)

OffMeansZero ==
    /\ governor = "off" => throttleLevel = 0
    /\ governor # "off" => probe

SaversAgree ==
    ~overlapped =>
        /\ \A s, t \in Savers : saver[s] # Ready /\ saver[t] # Ready => s = t
        /\ (\A s \in Savers : saver[s] = Ready) =>
              (governor # "off" <=> throttleEnabled /\ probe /\ ~misread)
        /\ \A s \in Savers :
              /\ saver[s].pc = "lock" => (saver[s].enabled <=> throttleEnabled /\ ~misread)
              /\ saver[s].pc = "join" => ~throttleEnabled \/ misread

DwellsFresh ==
    /\ mixed.hot <= throttleClock /\ mixed.cool <= throttleClock /\ stepped <= throttleClock
    /\ governor \in {"woken", "wokenstop"} =>
          mixed.hot < throttleClock /\ mixed.cool < throttleClock
    /\ machine.over # Unset =>
          mixed.hot < machine.over /\ stepped <= machine.over /\ machine.over <= throttleClock
    /\ machine.under # Unset =>
          mixed.cool < machine.under /\ stepped <= machine.under /\ machine.under <= throttleClock

GInv == ThrottleTypeOK /\ OffMeansZero /\ SaversAgree /\ DwellsFresh

Saver == [pc : {"idle", "load", "lock", "join"}, enabled : BOOLEAN]
Machine == [level : 0..2, over : Unset..ThrottleHorizon, under : Unset..ThrottleHorizon]

\* A sample moves the level by its dwell timer alone, and restarts or clears that.
LEMMA ObserveOK ==
    ASSUME ThrottleTypeOK, NEW sample \in {"hot", "cool", "between"}
    PROVE  LET m == Observe(sample, throttleClock) IN
           /\ m \in Machine
           /\ m.level > machine.level =>
                 /\ sample = "hot" /\ machine.over # Unset /\ throttleClock - machine.over >= EnterAfter
           /\ m.level < machine.level =>
                 /\ sample = "cool" /\ machine.under # Unset /\ throttleClock - machine.under >= ExitAfter
           /\ m.over # Unset =>
                 sample = "hot" /\ (m.over = throttleClock \/ (m.level = machine.level /\ m.over = machine.over))
           /\ m.under # Unset =>
                 sample = "cool" /\ (m.under = throttleClock \/ (m.level = machine.level /\ m.under = machine.under))
<1>0. /\ machine \in Machine /\ throttleClock \in 0..ThrottleHorizon
      /\ machine.level \in 0..2 /\ machine.over \in -1..ThrottleHorizon /\ machine.under \in -1..ThrottleHorizon
      /\ EnterAfter \in Nat \ {0} /\ ExitAfter \in Nat \ {0} /\ ThrottleHorizon \in Nat
  BY ThrottleAssumption DEF ThrottleTypeOK, Machine, Unset
<1>1. CASE sample = "hot"
  BY <1>0, <1>1 DEF Observe, Since, Unset, Machine
<1>2. CASE sample = "cool"
  BY <1>0, <1>2 DEF Observe, Since, Unset, Machine
<1>3. CASE sample = "between"
  BY <1>0, <1>3 DEF Observe, Since, Unset, Machine
<1> QED BY <1>1, <1>2, <1>3

\* The machine's fields, and the machine after a reconfiguration.
LEMMA MachineFacts ==
    ASSUME ThrottleTypeOK
    PROVE  /\ machine \in Machine /\ NewMachine \in Machine /\ Ready \in Saver /\ Ready.pc = "idle"
           /\ machine.level \in 0..2 /\ machine.over \in Int /\ machine.under \in Int
<1>1. machine \in Machine
  BY DEF ThrottleTypeOK, Machine
<1>2. machine.over \in Int /\ machine.under \in Int
  BY <1>1, ThrottleAssumption DEF Machine, Unset
<1> QED BY <1>1, <1>2, ThrottleAssumption DEF Machine, NewMachine, Saver, Ready, Unset

\* Off, and at level 0, at the start.
LEMMA ThrottleInitInv == ThrottleInit => GInv
<1> SUFFICES ASSUME ThrottleInit PROVE GInv
  OBVIOUS
<1>1. machine \in Machine /\ saver \in [Savers -> Saver]
  BY ThrottleAssumption DEF ThrottleInit, Machine, NewMachine, Saver, Ready, Unset
<1>2. ThrottleTypeOK
  <2>1. 0 \in 0..ThrottleHorizon /\ 0 \in 0..MaxThrottleSaves /\ 0 \in 0..2
    BY ThrottleAssumption
  <2>2. mixed \in [hot : 0..ThrottleHorizon, cool : 0..ThrottleHorizon]
    BY <2>1 DEF ThrottleInit
  <2> QED BY <1>1, <2>1, <2>2 DEF ThrottleInit, ThrottleTypeOK, Machine, Saver
<1>3. OffMeansZero /\ SaversAgree /\ DwellsFresh
  BY DEF ThrottleInit, OffMeansZero, SaversAgree, DwellsFresh, Ready, NewMachine
<1> QED BY <1>2, <1>3 DEF GInv

\* GInv is inductive.
LEMMA ThrottleStep == GInv /\ [ThrottleNext]_throttleVars => GInv'
<1> SUFFICES ASSUME GInv, [ThrottleNext]_throttleVars PROVE GInv'
  OBVIOUS
<1>0. /\ saver \in [Savers -> Saver] /\ machine \in Machine /\ throttleClock \in 0..ThrottleHorizon
      /\ throttleSaves \in 0..MaxThrottleSaves /\ ThrottleHorizon \in Nat /\ MaxThrottleSaves \in Nat
      /\ mixed \in [hot : 0..ThrottleHorizon, cool : 0..ThrottleHorizon] /\ stepped \in 0..ThrottleHorizon
      /\ Ready \in Saver /\ Ready.pc = "idle" /\ NewMachine \in Machine
  BY MachineFacts, ThrottleAssumption DEF GInv, ThrottleTypeOK, Saver
<1>1. CASE UNCHANGED throttleVars
  BY <1>1 DEF throttleVars, switchVars, GInv, ThrottleTypeOK, OffMeansZero, SaversAgree, DwellsFresh
<1>2. CASE Wakes
  <2>1. throttleClock' \in 0..ThrottleHorizon /\ throttleClock' = throttleClock + 1
    BY <1>0, <1>2 DEF Wakes
  <2>2. ThrottleTypeOK' /\ OffMeansZero' /\ SaversAgree'
    BY <1>2, <2>1 DEF Wakes, switchVars, GInv, ThrottleTypeOK, OffMeansZero, SaversAgree
  <2>3. DwellsFresh'
    BY <1>0, <1>2, <2>1 DEF Wakes, switchVars, GInv, DwellsFresh, Machine, Unset
  <2> QED BY <2>2, <2>3 DEF GInv
<1>3. ASSUME NEW sample \in {"hot", "cool", "between"}, Samples(sample) PROVE GInv'
  <2> DEFINE m == Observe(sample, throttleClock)
  <2>1. /\ machine' = m /\ throttleLevel' = m.level
        /\ mixed' = [hot |-> IF sample = "hot" THEN mixed.hot ELSE throttleClock,
                     cool |-> IF sample = "cool" THEN mixed.cool ELSE throttleClock]
        /\ stepped' = IF m.level # machine.level THEN throttleClock ELSE stepped
        /\ governor \in {"woken", "wokenstop"} /\ governor' \in {"waiting", "stop"}
        /\ UNCHANGED <<throttleEnabled, probe, misread, saver, throttleClock, throttleSaves, overlapped>>
    BY <1>3 DEF Samples, switchVars
  <2>2. /\ m \in Machine
        /\ m.over # Unset =>
              sample = "hot" /\ (m.over = throttleClock \/ (m.level = machine.level /\ m.over = machine.over))
        /\ m.under # Unset =>
              sample = "cool" /\ (m.under = throttleClock \/ (m.level = machine.level /\ m.under = machine.under))
    BY <1>3, ObserveOK DEF GInv
  <2> HIDE DEF m
  <2>3. ThrottleTypeOK'
    BY <1>0, <2>1, <2>2 DEF GInv, ThrottleTypeOK, Machine
  <2>4. OffMeansZero' /\ SaversAgree'
    BY <2>1 DEF GInv, OffMeansZero, SaversAgree
  <2>5. DwellsFresh'
    <3>1. /\ mixed.hot < throttleClock /\ mixed.cool < throttleClock /\ stepped <= throttleClock
          /\ throttleClock \in Int /\ mixed.hot \in Int /\ mixed.cool \in Int /\ stepped \in Int
      BY <1>0, <2>1 DEF GInv, DwellsFresh
    <3>2. mixed'.hot <= throttleClock /\ mixed'.cool <= throttleClock /\ stepped' <= throttleClock
      BY <2>1, <3>1
    <3>3. ASSUME m.over # Unset
          PROVE  mixed'.hot < m.over /\ stepped' <= m.over /\ m.over <= throttleClock
      BY <2>1, <2>2, <3>1, <3>2, <3>3 DEF GInv, DwellsFresh
    <3>4. ASSUME m.under # Unset
          PROVE  mixed'.cool < m.under /\ stepped' <= m.under /\ m.under <= throttleClock
      BY <2>1, <2>2, <3>1, <3>2, <3>4 DEF GInv, DwellsFresh
    <3> QED BY <2>1, <3>2, <3>3, <3>4 DEF DwellsFresh
  <2> QED BY <2>3, <2>4, <2>5 DEF GInv
<1>4. ASSUME NEW s \in Savers, Startup(s) \/ \E on \in BOOLEAN : Save(s, on) PROVE GInv'
  <2>0. /\ ReconfigureBegins(s) /\ throttleEnabled' \in BOOLEAN /\ probe' \in BOOLEAN /\ (probe => probe')
        /\ throttleSaves' \in 0..MaxThrottleSaves /\ UNCHANGED <<misread, governorVars>>
    <3>1. CASE Startup(s)
      BY <1>0, <3>1 DEF Startup, GInv, ThrottleTypeOK
    <3>2. ASSUME NEW on \in BOOLEAN, Save(s, on)
          PROVE  /\ ReconfigureBegins(s) /\ throttleEnabled' \in BOOLEAN /\ probe' \in BOOLEAN
                 /\ (probe => probe') /\ throttleSaves' \in 0..MaxThrottleSaves
                 /\ UNCHANGED <<misread, governorVars>>
      BY <1>0, <3>2, ThrottleAssumption DEF Save, GInv, ThrottleTypeOK
    <3> QED BY <1>4, <3>1, <3>2
  <2>1. /\ saver[s] = Ready /\ saver'[s] = [Ready EXCEPT !.pc = "load"]
        /\ \A t \in Savers : t # s => saver'[t] = saver[t]
    BY <1>0, <2>0 DEF ReconfigureBegins
  <2>2. saver' \in [Savers -> Saver] /\ overlapped' \in BOOLEAN
    BY <1>0, <2>0 DEF ReconfigureBegins, Saver
  <2>3. ThrottleTypeOK' /\ OffMeansZero' /\ DwellsFresh'
    BY <2>0, <2>2 DEF governorVars, GInv, ThrottleTypeOK, OffMeansZero, DwellsFresh, Saver
  <2>4. SaversAgree'
    <3> SUFFICES ASSUME ~overlapped' PROVE SaversAgree'
      BY DEF SaversAgree
    <3>1. \A t \in Savers : t # s => saver[t] = Ready
      BY <2>0 DEF ReconfigureBegins
    <3>2. saver'[s].pc = "load" /\ \A t \in Savers : t # s => saver'[t] = Ready
      BY <2>1, <3>1 DEF Ready
    <3> QED BY <1>0, <3>2 DEF SaversAgree
  <2> QED BY <2>3, <2>4 DEF GInv
<1>5. ASSUME NEW s \in Savers, Load(s) PROVE GInv'
  <2>0. PICK readable \in BOOLEAN :
          /\ saver' = [saver EXCEPT ![s] = [pc |-> "lock", enabled |-> readable /\ throttleEnabled]]
          /\ misread' = (~readable /\ throttleEnabled)
    BY <1>5 DEF Load
  <2>1. /\ saver[s] # Ready /\ throttleEnabled \in BOOLEAN
        /\ UNCHANGED <<throttleEnabled, probe, throttleSaves, overlapped, governorVars>>
    BY <1>0, <1>5 DEF Load, GInv, ThrottleTypeOK
  <2>2. saver' \in [Savers -> Saver] /\ misread' \in BOOLEAN
    BY <1>0, <2>0, <2>1 DEF Saver
  <2>3. ThrottleTypeOK' /\ OffMeansZero' /\ DwellsFresh'
    BY <2>1, <2>2 DEF governorVars, GInv, ThrottleTypeOK, OffMeansZero, DwellsFresh, Saver
  <2>4. saver'[s] = [pc |-> "lock", enabled |-> readable /\ throttleEnabled]
        /\ \A t \in Savers \ {s} : saver'[t] = saver[t]
    BY <1>0, <2>0
  <2>5. SaversAgree'
    <3> SUFFICES ASSUME ~overlapped' PROVE SaversAgree'
      BY DEF SaversAgree
    <3>1. \A t \in Savers \ {s} : saver'[t] = Ready
      BY <2>1, <2>4 DEF GInv, SaversAgree
    <3>2. saver'[s] # Ready /\ saver'[s].pc = "lock"
          /\ (saver'[s].enabled <=> throttleEnabled' /\ ~misread')
      <4>1. saver'[s].pc = "lock" /\ saver'[s].enabled = (readable /\ throttleEnabled)
        BY <2>4
      <4>2. (readable /\ throttleEnabled) <=> (throttleEnabled' /\ ~misread')
        BY <2>0, <2>1, Zenon
      <4> QED BY <1>0, <4>1, <4>2
    <3> QED BY <1>0, <3>1, <3>2 DEF SaversAgree
  <2> QED BY <2>3, <2>5 DEF GInv
<1>6. ASSUME NEW s \in Savers, Reconfigure(s) PROVE GInv'
  <2>1. saver[s].pc = "lock" /\ saver[s] # Ready
        /\ UNCHANGED <<throttleEnabled, probe, misread, throttleLevel, throttleClock, throttleSaves,
                       overlapped>>
    BY <1>0, <1>6 DEF Reconfigure, switchVars
  <2>2. CASE /\ saver[s].enabled /\ governor = "off" /\ probe
             /\ governor' = "waiting"
             /\ machine' = NewMachine
             /\ saver' = [saver EXCEPT ![s] = Ready]
             /\ mixed' = [hot |-> throttleClock, cool |-> throttleClock]
             /\ stepped' = throttleClock
    <3>1. ThrottleTypeOK' /\ OffMeansZero'
      BY <1>0, <2>1, <2>2 DEF GInv, ThrottleTypeOK, OffMeansZero, Saver, Machine
    <3>2. SaversAgree'
      BY <1>0, <2>1, <2>2 DEF GInv, SaversAgree
    <3>3. DwellsFresh'
      BY <1>0, <2>1, <2>2 DEF DwellsFresh, NewMachine, Unset
    <3> QED BY <3>1, <3>2, <3>3 DEF GInv
  <2>3. CASE /\ ~saver[s].enabled /\ governor # "off"
             /\ governor' = IF governor = "woken" THEN "wokenstop" ELSE "stop"
             /\ saver' = [saver EXCEPT ![s].pc = "join"]
             /\ UNCHANGED <<machine, mixed, stepped>>
    <3>1. ThrottleTypeOK' /\ OffMeansZero'
      BY <1>0, <2>1, <2>3 DEF GInv, ThrottleTypeOK, OffMeansZero, Saver
    <3>2. SaversAgree'
      BY <1>0, <2>1, <2>3 DEF GInv, SaversAgree, Saver
    <3>3. DwellsFresh'
      BY <2>1, <2>3 DEF GInv, DwellsFresh
    <3> QED BY <3>1, <3>2, <3>3 DEF GInv
  <2>4. CASE /\ IF saver[s].enabled THEN governor # "off" \/ ~probe ELSE governor = "off"
             /\ saver' = [saver EXCEPT ![s] = Ready]
             /\ UNCHANGED <<governor, machine, mixed, stepped>>
    <3>1. ThrottleTypeOK' /\ OffMeansZero' /\ DwellsFresh'
      BY <1>0, <2>1, <2>4 DEF GInv, ThrottleTypeOK, OffMeansZero, DwellsFresh, Saver
    <3>2. SaversAgree'
      BY <1>0, <2>1, <2>4 DEF GInv, OffMeansZero, SaversAgree
    <3> QED BY <3>1, <3>2 DEF GInv
  <2> QED BY <1>6, <2>2, <2>3, <2>4 DEF Reconfigure
<1>7. ASSUME NEW s \in Savers, Joined(s) PROVE GInv'
  <2>1. /\ saver[s].pc = "join" /\ saver[s] # Ready /\ governor' = "off" /\ throttleLevel' = 0
        /\ saver' = [saver EXCEPT ![s] = Ready]
        /\ UNCHANGED <<throttleEnabled, probe, misread, machine, throttleClock, throttleSaves,
                       overlapped, mixed, stepped>>
    BY <1>0, <1>7 DEF Joined, switchVars
  <2>2. ThrottleTypeOK' /\ OffMeansZero'
    <3>1. saver' \in [Savers -> Saver]
      BY <1>0, <2>1
    <3> QED BY <2>1, <3>1 DEF GInv, ThrottleTypeOK, OffMeansZero, Saver
  <2>3. SaversAgree'
    BY <1>0, <2>1 DEF GInv, SaversAgree
  <2>4. DwellsFresh'
    BY <2>1 DEF GInv, DwellsFresh
  <2> QED BY <2>2, <2>3, <2>4 DEF GInv
<1> QED BY <1>1, <1>2, <1>3, <1>4, <1>5, <1>6, <1>7 DEF ThrottleNext

\* The machine's level is one of three and its dwell timers never run ahead of the
\* clock, however saves, samples and restarts of the governor interleave.
LEMMA ThrottleTypesOK == ThrottleSpec => []ThrottleTypeOK
<1>1. GInv => ThrottleTypeOK
  BY DEF GInv
<1> QED BY <1>1, ThrottleInitInv, ThrottleStep, PTL DEF ThrottleSpec

\* lib.rs:711, reconfigure_throttle: with no call under way a stopped governor has
\* left the level at zero, and the governor runs exactly when throttle.enabled says
\* so, there is a probe and the setting could be read; unless the latest call began
\* while another was under way.  For any number of calls.
THEOREM ThrottleResets == ThrottleSpec => []ThrottleOffMeansZero
<1>1. GInv => ThrottleOffMeansZero
  BY DEF GInv, OffMeansZero, SaversAgree, ThrottleOffMeansZero
<1> QED BY <1>1, ThrottleInitInv, ThrottleStep, PTL DEF ThrottleSpec

\* throttle.rs, ThrottleMachine::observe: each step of the level took a whole
\* dwell of samples of one kind, counted from the level's own beginning, whatever
\* the dwells, the samples and the restarts of the governor.
THEOREM LevelStepsTakeADwell == ThrottleSpec => DwellBeforeStep
<1> DEFINE Step ==
        /\ machine'.level > machine.level =>
             throttleClock - mixed.hot > EnterAfter /\ throttleClock - stepped >= EnterAfter
        /\ machine'.level < machine.level /\ governor # "off" =>
             throttleClock - mixed.cool > ExitAfter /\ throttleClock - stepped >= ExitAfter
<1>1. GInv /\ [ThrottleNext]_throttleVars => [Step]_throttleVars
  <2> SUFFICES ASSUME GInv, ThrottleNext PROVE Step
    OBVIOUS
  <2>0. /\ machine \in Machine /\ machine.level \in 0..2
        /\ throttleClock \in Int /\ mixed.hot \in Int /\ mixed.cool \in Int /\ stepped \in Int
        /\ machine.over \in Int /\ machine.under \in Int /\ EnterAfter \in Nat /\ ExitAfter \in Nat
    BY MachineFacts, ThrottleAssumption DEF GInv, ThrottleTypeOK
  <2>1. ASSUME UNCHANGED machine PROVE Step
    BY <2>0, <2>1
  <2>2. CASE \/ Wakes \/ \E s \in Savers : Load(s) \/ Joined(s) \/ Startup(s)
             \/ \E s \in Savers, on \in BOOLEAN : Save(s, on)
    BY <2>1, <2>2 DEF Wakes, Load, Joined, Startup, Save, governorVars
  <2>3. ASSUME NEW s \in Savers, Reconfigure(s) PROVE Step
    <3>1. CASE governor = "off" /\ machine' = NewMachine
      BY <2>0, <3>1 DEF NewMachine
    <3> QED BY <2>1, <2>3, <3>1 DEF Reconfigure
  <2>4. ASSUME NEW sample \in {"hot", "cool", "between"}, Samples(sample) PROVE Step
    <3> DEFINE m == Observe(sample, throttleClock)
    <3>1. /\ machine' = m
          /\ m.level > machine.level => machine.over # Unset /\ throttleClock - machine.over >= EnterAfter
          /\ m.level < machine.level => machine.under # Unset /\ throttleClock - machine.under >= ExitAfter
      BY <2>4, ObserveOK DEF Samples, GInv
    <3> HIDE DEF m
    <3>2. /\ machine.over # Unset => mixed.hot < machine.over /\ stepped <= machine.over
          /\ machine.under # Unset => mixed.cool < machine.under /\ stepped <= machine.under
      BY DEF GInv, DwellsFresh
    <3>3. m.level > machine.level =>
            throttleClock - mixed.hot > EnterAfter /\ throttleClock - stepped >= EnterAfter
      BY <2>0, <3>1, <3>2
    <3>4. m.level < machine.level =>
            throttleClock - mixed.cool > ExitAfter /\ throttleClock - stepped >= ExitAfter
      BY <2>0, <3>1, <3>2
    <3> QED BY <3>1, <3>3, <3>4
  <2> QED BY <2>2, <2>3, <2>4 DEF ThrottleNext
<1> QED BY <1>1, ThrottleInitInv, ThrottleStep, PTL DEF ThrottleSpec, DwellBeforeStep

-----------------------------------------------------------------------------
(* The triggers.  A capture for idleness that came after the pending change  *)
(* belongs to a quiet period that is over, or that has had its capture; and  *)
(* a settled change still pending is waiting for the rate ceiling alone.     *)

EmitsInThePast ==
    /\ pendingEvent # Never => pendingEvent <= polledAt
    /\ lastEmit # Never => lastEmit <= polledAt
    /\ lastInput <= polledAt

QuietPeriodUsed ==
    pendingEvent # Never /\ lastEmit # Never /\ lastEmit > pendingEvent =>
        lastInput >= lastEmit \/ (firedIdle /\ lastEmit - lastInput >= idleThreshold)

CeilingAlone ==
    pendingEvent # Never /\ polledAt > Undisturbed /\ polledAt - Undisturbed >= Debounce =>
        /\ lastEmit # Never /\ polledAt - lastEmit < MinInterval
        /\ lastEmit - Undisturbed < Debounce + MinInterval \/ lastEmit - Undisturbed <= MinInterval

TInv == TriggerTypeOK /\ EmitsInThePast /\ QuietPeriodUsed /\ CeilingAlone

\* TInv is inductive.
LEMMA TriggerStep == TInv /\ [TriggerNext]_triggerVars => TInv'
<1> SUFFICES ASSUME TInv, [TriggerNext]_triggerVars PROVE TInv'
  OBVIOUS
<1>0. /\ polledAt \in 0..TriggerHorizon /\ lastInput \in 0..TriggerHorizon
      /\ pendingEvent \in Int /\ lastEmit \in Int /\ firedIdle \in BOOLEAN
      /\ polledAt \in Int /\ lastInput \in Int
      /\ Debounce \in Nat /\ MinInterval \in Nat \ {0} /\ idleThreshold \in Nat
      /\ TriggerHorizon \in Nat
  BY TriggerAssumption DEF TInv, TriggerTypeOK, Never
<1>1. CASE UNCHANGED triggerVars
  BY <1>1 DEF triggerVars, TInv, TriggerTypeOK, EmitsInThePast, QuietPeriodUsed, CeilingAlone, Undisturbed
<1>2. CASE UserInput \/ ForegroundChange
  <2>1. /\ UNCHANGED <<idleThreshold, polledAt, lastEmit, firedIdle, fired>>
        /\ lastInput' = lastInput \/ lastInput' = polledAt
        /\ pendingEvent' = polledAt \/ (pendingEvent' = pendingEvent /\ lastInput' = polledAt)
    BY <1>2 DEF UserInput, ForegroundChange
  <2>2. TriggerTypeOK'
    BY <1>0, <2>1 DEF TInv, TriggerTypeOK
  <2>3. EmitsInThePast' /\ QuietPeriodUsed'
    BY <1>0, <2>1 DEF TInv, EmitsInThePast, QuietPeriodUsed, Never
  <2>4. CeilingAlone'
    BY <1>0, <2>1 DEF TInv, CeilingAlone, EmitsInThePast, Undisturbed
  <2> QED BY <2>2, <2>3, <2>4 DEF TInv
<1>3. CASE PollTick
  <2> DEFINE now == polledAt + 1
             quiet == now - lastInput >= idleThreshold
             idle == quiet /\ ~firedIdle /\ MayEmit(now)
             settled == pendingEvent # Never /\ now - pendingEvent >= Debounce /\ MayEmit(now)
  <2>1. /\ polledAt' = now /\ UNCHANGED <<idleThreshold, lastInput>>
        /\ now \in 0..TriggerHorizon /\ now \in Int
        /\ fired' = IF idle THEN "Idle" ELSE IF settled THEN "ForegroundChange" ELSE "nothing"
        /\ firedIdle' = (quiet /\ (firedIdle \/ idle))
        /\ lastEmit' = IF idle \/ settled THEN now ELSE lastEmit
        /\ pendingEvent' = IF ~idle /\ settled THEN Never ELSE pendingEvent
    BY <1>0, <1>3 DEF PollTick, Poll
  <2>2. TriggerTypeOK'
    BY <1>0, <2>1 DEF TInv, TriggerTypeOK
  <2>3. CASE pendingEvent' = Never
    BY <1>0, <2>1, <2>2, <2>3 DEF TInv, EmitsInThePast, QuietPeriodUsed, CeilingAlone, Never
  <2>4. CASE idle
    <3>1. /\ pendingEvent' = pendingEvent /\ lastEmit' = now /\ firedIdle' /\ ~firedIdle
          /\ now - lastInput >= idleThreshold /\ MayEmit(now) /\ Undisturbed' = Undisturbed
      BY <2>1, <2>4 DEF Undisturbed
    <3>2. EmitsInThePast' /\ QuietPeriodUsed'
      BY <1>0, <2>1, <3>1 DEF TInv, EmitsInThePast, QuietPeriodUsed, Never
    <3>3. ASSUME pendingEvent # Never
          PROVE  now - Undisturbed < Debounce + MinInterval \/ now - Undisturbed <= MinInterval
      <4>0. /\ Undisturbed \in Int /\ Undisturbed >= pendingEvent
            /\ idleThreshold > MinInterval \/ Undisturbed >= lastInput
        BY <1>0 DEF Undisturbed
      <4> SUFFICES ASSUME now - Undisturbed >= Debounce + MinInterval, now - Undisturbed > MinInterval
                   PROVE FALSE
        BY <1>0, <4>0
      <4>1. /\ lastEmit # Never /\ polledAt - lastEmit < MinInterval
        BY <1>0, <3>3, <4>0 DEF TInv, CeilingAlone
      <4>2. now - lastEmit = MinInterval
        BY <1>0, <3>1, <4>1 DEF MayEmit
      <4>3. lastEmit > Undisturbed
        BY <1>0, <4>0, <4>2
      <4>4. lastInput >= lastEmit
        BY <1>0, <3>1, <3>3, <4>0, <4>1, <4>3 DEF TInv, QuietPeriodUsed
      <4> QED BY <1>0, <3>1, <4>0, <4>2, <4>3, <4>4
    <3>4. CeilingAlone'
      BY <1>0, <2>1, <3>1, <3>3 DEF CeilingAlone, Never
    <3> QED BY <2>2, <3>2, <3>4 DEF TInv
  <2>5. CASE ~idle /\ ~settled
    <3>1. /\ pendingEvent' = pendingEvent /\ lastEmit' = lastEmit
          /\ firedIdle' = (quiet /\ firedIdle)
          /\ pendingEvent # Never /\ now - pendingEvent >= Debounce => ~MayEmit(now)
          /\ Undisturbed' = Undisturbed /\ Undisturbed \in Int /\ Undisturbed >= pendingEvent
      BY <1>0, <2>1, <2>5 DEF Undisturbed
    <3>2. EmitsInThePast' /\ QuietPeriodUsed'
      BY <1>0, <2>1, <3>1 DEF TInv, EmitsInThePast, QuietPeriodUsed, Never
    <3>3. CeilingAlone'
      <4> SUFFICES ASSUME pendingEvent # Never, now - Undisturbed >= Debounce
                   PROVE  /\ lastEmit # Never /\ now - lastEmit < MinInterval
                          /\ \/ lastEmit - Undisturbed < Debounce + MinInterval
                             \/ lastEmit - Undisturbed <= MinInterval
        BY <2>1, <3>1 DEF CeilingAlone
      <4>1. lastEmit # Never /\ now - lastEmit < MinInterval
        BY <1>0, <2>1, <3>1 DEF MayEmit
      <4>2. lastEmit <= polledAt /\ Undisturbed <= polledAt
        BY <1>0, <4>1 DEF TInv, EmitsInThePast, Undisturbed
      <4>3. CASE polledAt > Undisturbed /\ polledAt - Undisturbed >= Debounce
        BY <4>1, <4>3 DEF TInv, CeilingAlone
      <4>4. CASE ~(polledAt > Undisturbed /\ polledAt - Undisturbed >= Debounce)
        BY <1>0, <3>1, <4>1, <4>2, <4>4
      <4> QED BY <4>3, <4>4
    <3> QED BY <2>2, <3>2, <3>3 DEF TInv
  <2>6. CASE ~idle /\ settled
    BY <2>1, <2>3, <2>6
  <2> QED BY <2>4, <2>5, <2>6
<1> QED BY <1>1, <1>2, <1>3 DEF TriggerNext

\* TInv holds at the start and is kept by every step.
LEMMA TriggerInvariant == TriggerSpec => []TInv
<1>1. TriggerInit => TInv
  <2> SUFFICES ASSUME TriggerInit PROVE TInv
    OBVIOUS
  <2>1. TriggerTypeOK
    <3>1. 0 \in 0..TriggerHorizon
      BY TriggerAssumption
    <3> QED BY <3>1 DEF TriggerInit, TriggerTypeOK
  <2>2. EmitsInThePast /\ QuietPeriodUsed /\ CeilingAlone
    BY DEF TriggerInit, EmitsInThePast, QuietPeriodUsed, CeilingAlone
  <2> QED BY <2>1, <2>2 DEF TInv
<1> QED BY <1>1, TriggerStep, PTL DEF TriggerSpec

\* The machine's times are times of polls, or no time at all.
LEMMA TriggerTypesOK == TriggerSpec => []TriggerTypeOK
<1>1. TInv => TriggerTypeOK
  BY DEF TInv
<1> QED BY <1>1, TriggerInvariant, PTL

\* trigger.rs, TriggerMachine::poll: a foreground change is captured within its
\* debounce and two rate intervals, for every debounce, rate ceiling and quiet
\* period; where the quiet period is no longer than the rate ceiling, within that
\* time of the last input, for captures for idleness between two inputs may come
\* before the change again and again.
THEOREM TriggersServed == TriggerSpec => []EventServed
<1>1. TInv => EventServed
  <2> SUFFICES ASSUME TInv, pendingEvent # Never, polledAt # Undisturbed
               PROVE  polledAt - Undisturbed < Debounce + 2 * MinInterval
    BY DEF EventServed
  <2>1. /\ polledAt \in Int /\ pendingEvent \in Int /\ lastEmit \in Int /\ lastInput \in Int
        /\ Debounce \in Nat /\ MinInterval \in Nat \ {0} /\ Undisturbed \in Int
    BY TriggerAssumption DEF TInv, TriggerTypeOK, Never, Undisturbed
  <2>2. polledAt > Undisturbed
    BY <2>1 DEF TInv, EmitsInThePast, Undisturbed
  <2> QED BY <2>1, <2>2 DEF TInv, CeilingAlone
<1> QED BY <1>1, TriggerInvariant, PTL

-----------------------------------------------------------------------------
(* The model downloads.  A model file that is in place has no hole, for any  *)
(* numbers of callers, files, ranges, connections, uploads and mishaps.  The *)
(* property speaks of published files only; the inductive invariant DInv     *)
(* adds what a resumed download relies on: a mark of the bitmap is backed by *)
(* bytes that survive a power loss, as long as the part has the bitmap's     *)
(* length.                                                                   *)

PartType == [len : 0..3, firm : BOOLEAN, cached : [Ranges -> Contents], synced : [Ranges -> Contents]]
BitmapType == [total : {0} \cup Lengths, done : SUBSET Ranges]
FileType == [dest : [Ranges -> Contents], placed : BOOLEAN, part : PartType, bitmap : BitmapType,
             blob : [Ranges -> Contents], copy : {"none", "unsynced", "hit"}]
RangeStates == {"idle", "asked", "written", "synced", "done"}
FetchType == [pc : {"none", "file", "open", "load", "ranges", "publish", "clean", "done", "failed"},
              file : 0..NumFiles, total : {0} \cup Lengths, sha : Contents, unbacked : BOOLEAN,
              range : [Ranges -> RangeStates]]

DTypes ==
    /\ hub \in [version : 1..MaxVersions, length : Lengths]
    /\ disk \in [ModelFiles -> FileType]
    /\ fetch \in FetchType
    /\ regrown \subseteq ModelFiles

\* The points at which the task has a file, and those at which it is fetching it.
AtFile == {"file", "open", "load", "ranges", "publish", "clean"}
Fetching == {"open", "load", "ranges", "publish"}

\* A file is fetched only while it is not in place.
TaskFile ==
    /\ fetch.pc \in AtFile => fetch.file \in ModelFiles
    /\ fetch.pc \in Fetching => ~disk[fetch.file].placed /\ fetch.total \in Lengths

\* Over a part of the bitmap's length a marked range has its bytes, also on the medium.
MarksBacked ==
    \A f \in ModelFiles :
        /\ disk[f].bitmap.total = 0 => disk[f].bitmap.done = {}
        /\ f \notin regrown /\ disk[f].part.len = disk[f].bitmap.total =>
             \A c \in disk[f].bitmap.done : disk[f].part.cached[c] # 0 /\ disk[f].part.synced[c] # 0

\* What the task believes of its part is so.
TaskKnows ==
    /\ fetch.pc \in {"file", "open", "load", "publish", "clean"} =>
         \A c \in Ranges : fetch.range[c] \in {"idle", "done"}
    /\ fetch.pc \in {"load", "ranges"} => disk[fetch.file].part.len = fetch.total
    /\ fetch.pc = "ranges" =>
         /\ disk[fetch.file].bitmap.total = fetch.total
         /\ \A c \in disk[fetch.file].bitmap.done : fetch.range[c] = "done"
    /\ fetch.pc = "ranges" /\ fetch.file \notin regrown =>
         \A c \in Ranges :
            /\ fetch.range[c] \in {"written", "synced", "done"} => disk[fetch.file].part.cached[c] # 0
            /\ fetch.range[c] \in {"synced", "done"} => disk[fetch.file].part.synced[c] # 0
    /\ fetch.pc = "publish" /\ fetch.file \notin regrown =>
         \A c \in Ranges : disk[fetch.file].part.cached[c] # 0

\* A blob of the cache is whole, like what is in place, until a power loss hits it.
Whole ==
    /\ DownloadIsWhole
    /\ \A f \in ModelFiles : disk[f].copy = "unsynced" => \A c \in Ranges : disk[f].blob[c] # 0

DInv == DTypes /\ TaskFile /\ MarksBacked /\ TaskKnows /\ Whole

\* Nothing was put in place or into the cache.
SamePlaced ==
    \A f \in ModelFiles :
        /\ disk'[f].placed = disk[f].placed /\ disk'[f].dest = disk[f].dest
        /\ disk'[f].blob = disk[f].blob /\ disk'[f].copy = disk[f].copy

-----------------------------------------------------------------------------
(* Records and functions *)

\* The constants of the model have their types.
LEMMA ConstantTypes ==
    /\ Zeros \in [Ranges -> Contents] /\ NoPart \in PartType /\ NoBitmap \in BitmapType
    /\ Nothing \in FileType /\ NoFetch \in FetchType
    /\ 0 \in Contents /\ 1..MaxVersions \subseteq Contents /\ 0 \notin Lengths /\ 3 \notin Lengths
    /\ 0 \notin ModelFiles
PROOF
<1> USE DownloadAssumption
<1>1. 0 \in Contents /\ 1..MaxVersions \subseteq Contents /\ 0 \notin Lengths /\ 3 \notin Lengths
  BY DEF Contents, Lengths
<1>2. 0 \notin ModelFiles BY DEF ModelFiles
<1>3. Zeros \in [Ranges -> Contents] BY <1>1 DEF Zeros
<1>4. NoPart \in PartType BY <1>3 DEF NoPart, PartType
<1>5. NoBitmap \in BitmapType BY DEF NoBitmap, BitmapType
<1>6. Nothing \in FileType BY <1>3, <1>4, <1>5 DEF Nothing, FileType
<1>7. NoFetch \in FetchType BY <1>1 DEF NoFetch, FetchType, RangeStates
<1> QED BY <1>1, <1>2, <1>3, <1>4, <1>5, <1>6, <1>7

\* What Leaves does to the disk: the part and the bitmap of the task's file.
LEMMA LeavesOne ==
    ASSUME DTypes, fetch.file \in ModelFiles,
           NEW p \in PartType, NEW b \in BitmapType, Leaves(p, b)
    PROVE  /\ disk' \in [ModelFiles -> FileType]
           /\ disk'[fetch.file].part = p /\ disk'[fetch.file].bitmap = b
           /\ \A f \in ModelFiles : f # fetch.file => disk'[f] = disk[f]
           /\ SamePlaced
PROOF
<1> DEFINE new == [disk[fetch.file] EXCEPT !.part = p, !.bitmap = b]
<1>1. disk[fetch.file] \in FileType BY DEF DTypes
<1>2. new \in FileType /\ new.part = p /\ new.bitmap = b
      /\ new.placed = disk[fetch.file].placed /\ new.dest = disk[fetch.file].dest
      /\ new.blob = disk[fetch.file].blob /\ new.copy = disk[fetch.file].copy
  BY <1>1 DEF FileType
<1>3. disk' = [disk EXCEPT ![fetch.file] = new]
  BY DEF Leaves, DTypes
<1> HIDE DEF new
<1> QED BY <1>2, <1>3 DEF DTypes, SamePlaced

-----------------------------------------------------------------------------
(* The actions *)

\* DInv does not mention what these steps change.
LEMMA WaitingSteps ==
    ASSUME DInv, NEW k \in Fetchers, Ensure(k) \/ EnsureLocked(k) \/ FinishDownload(k)
    PROVE  DInv'
PROOF
<1> USE ConstantTypes, DownloadAssumption
<1>1. fetch' = fetch \/ fetch' = NoFetch \/ fetch' = [NoFetch EXCEPT !.pc = "file", !.file = 1]
  BY DEF Ensure, EnsureLocked, FinishDownload
<1>2. UNCHANGED <<hub, disk, regrown>>
  BY DEF Ensure, EnsureLocked, FinishDownload
<1>3. CASE fetch' = fetch
  BY <1>2, <1>3 DEF DInv, DTypes, TaskFile, MarksBacked, TaskKnows, Whole, DownloadIsWhole
<1>4. CASE fetch' = NoFetch
  <2>1. fetch'.pc = "none" BY <1>4 DEF NoFetch
  <2>2. DTypes' BY <1>2, <1>4 DEF DInv, DTypes
  <2>3. TaskFile' /\ TaskKnows' BY <2>1 DEF TaskFile, TaskKnows, AtFile, Fetching
  <2> QED BY <1>2, <2>2, <2>3 DEF DInv, MarksBacked, Whole, DownloadIsWhole
<1>5. CASE fetch' = [NoFetch EXCEPT !.pc = "file", !.file = 1]
  <2>1. fetch'.pc = "file" /\ fetch'.file = 1 /\ fetch' \in FetchType
        /\ \A c \in Ranges : fetch'.range[c] = "idle"
    <3>1. NoFetch.range = [c \in Ranges |-> "idle"] BY DEF NoFetch
    <3>2. 1 \in 0..NumFiles OBVIOUS
    <3>3. fetch' \in FetchType /\ fetch'.pc = "file" /\ fetch'.file = 1 /\ fetch'.range = NoFetch.range
      BY <1>5, <3>2 DEF FetchType
    <3> QED BY <3>1, <3>3
  <2>2. 1 \in ModelFiles BY DEF ModelFiles
  <2>3. DTypes' BY <1>2, <2>1 DEF DInv, DTypes
  <2>4. TaskFile' /\ TaskKnows' BY <2>1, <2>2 DEF TaskFile, TaskKnows, AtFile, Fetching
  <2> QED BY <1>2, <2>3, <2>4 DEF DInv, MarksBacked, Whole, DownloadIsWhole
<1> QED BY <1>1, <1>3, <1>4, <1>5

\* A task cut short marks only ranges whose bytes are synced, and overwrites
\* none that is marked.
LEMMA CutShortKeepsMarks ==
    ASSUME DInv, fetch.pc \in AtFile, CutShort
    PROVE  /\ disk' \in [ModelFiles -> FileType]
           /\ SamePlaced
           /\ regrown' = regrown => MarksBacked'
PROOF
<1> USE ConstantTypes, DownloadAssumption
<1> DEFINE f == fetch.file
<1>1. f \in ModelFiles /\ disk[f] \in FileType /\ fetch.range \in [Ranges -> RangeStates]
      /\ disk[f].part \in PartType /\ disk[f].bitmap \in BitmapType
  BY DEF DInv, DTypes, TaskFile, FetchType, FileType
<1>2. PICK wrote \in [{c \in Ranges : fetch.range[c] = "asked"} -> Contents],
           marked \in SUBSET {c \in Ranges : fetch.range[c] = "synced"} :
        Leaves([disk[f].part EXCEPT !.cached = [c \in Ranges |->
                    IF c \in DOMAIN wrote THEN wrote[c] ELSE @[c]]],
               [disk[f].bitmap EXCEPT !.done = @ \cup marked])
  BY DEF CutShort, Here
<1> DEFINE cached == [c \in Ranges |-> IF c \in DOMAIN wrote THEN wrote[c] ELSE disk[f].part.cached[c]]
           p == [disk[f].part EXCEPT !.cached = cached]
           b == [disk[f].bitmap EXCEPT !.done = @ \cup marked]
<1>3. cached \in [Ranges -> Contents]
  BY <1>1 DEF PartType
<1>4. p \in PartType /\ p.len = disk[f].part.len /\ p.cached = cached /\ p.synced = disk[f].part.synced
  <2> HIDE DEF cached
  <2> QED BY <1>1, <1>3 DEF PartType
<1>5. b \in BitmapType /\ b.total = disk[f].bitmap.total /\ b.done = disk[f].bitmap.done \cup marked
  BY <1>1 DEF BitmapType
<1>6. Leaves(p, b) BY <1>2
<1> HIDE DEF p, b
<1>7. /\ disk' \in [ModelFiles -> FileType]
      /\ disk'[f].part = p /\ disk'[f].bitmap = b
      /\ \A g \in ModelFiles : g # f => disk'[g] = disk[g]
      /\ SamePlaced
  BY <1>1, <1>4, <1>5, <1>6, LeavesOne DEF DInv
<1>8. ASSUME regrown' = regrown, fetch.pc = "ranges" PROVE MarksBacked'
  <2>1. b.total # 0 BY <1>5, <1>8 DEF DInv, TaskFile, TaskKnows, Fetching
  <2>2. ASSUME f \notin regrown, NEW c \in b.done PROVE p.cached[c] # 0 /\ p.synced[c] # 0
    <3>1. c \in Ranges /\ fetch.range[c] \in {"synced", "done"}
      BY <1>1, <1>5, <1>8, <2>2 DEF DInv, TaskKnows, BitmapType
    <3>2. disk[f].part.cached[c] # 0 /\ disk[f].part.synced[c] # 0
      BY <1>8, <2>2, <3>1 DEF DInv, TaskKnows
    <3>3. cached[c] = disk[f].part.cached[c] BY <3>1
    <3> QED BY <1>4, <3>2, <3>3
  <2> QED BY <1>7, <1>8, <2>1, <2>2 DEF DInv, MarksBacked
<1>9. ASSUME regrown' = regrown, fetch.pc # "ranges" PROVE MarksBacked'
  <2>1. \A c \in Ranges : fetch.range[c] \in {"idle", "done"} BY <1>9 DEF DInv, TaskKnows, AtFile
  <2>2. b.done = disk[f].bitmap.done BY <1>5, <2>1
  <2>3. \A c \in Ranges : p.cached[c] = disk[f].part.cached[c] BY <1>4, <2>1
  <2>4. b.done \subseteq Ranges BY <1>5 DEF BitmapType
  <2> QED BY <1>1, <1>4, <1>5, <1>7, <1>9, <2>2, <2>3, <2>4 DEF DInv, MarksBacked
<1> QED BY <1>7, <1>8, <1>9

\* A task that is aborted, or that fails over a range.
LEMMA InterruptedSteps ==
    ASSUME DInv, RangeFails \/ \E k \in Fetchers : Stalls(k)
    PROVE  DInv'
PROOF
<1> USE ConstantTypes, DownloadAssumption
<1>1. fetch.pc \in AtFile /\ CutShort /\ UNCHANGED <<hub, regrown>>
  <2>1. CASE RangeFails BY <2>1 DEF RangeFails, AtFile
  <2>2. CASE \E k \in Fetchers : Stalls(k) BY <2>2 DEF Stalls, AtFile, DInv, DTypes, FetchType
  <2> QED BY <2>1, <2>2
<1>2. fetch' \in FetchType /\ fetch'.pc \in {"none", "failed"}
  <2>1. CASE RangeFails BY <2>1 DEF RangeFails, Goes, DInv, DTypes, FetchType
  <2>2. CASE \E k \in Fetchers : Stalls(k)
    <3>1. fetch' = NoFetch BY <2>2 DEF Stalls
    <3>2. NoFetch.pc = "none" BY DEF NoFetch
    <3> QED BY <3>1, <3>2
  <2> QED BY <2>1, <2>2
<1>3. TaskFile' /\ TaskKnows' BY <1>2 DEF TaskFile, TaskKnows, AtFile, Fetching
<1> QED BY <1>1, <1>2, <1>3, CutShortKeepsMarks DEF DInv, DTypes, Whole, DownloadIsWhole, SamePlaced

\* From one file to the next, or to the end of the task.
LEMMA FileSteps ==
    ASSUME DInv, NextFile \/ TaskFails \/ (\E sha \in BOOLEAN : Probe(sha)) \/ Upload
    PROVE  DInv'
PROOF
<1> USE ConstantTypes, DownloadAssumption
<1>1. CASE NextFile
  <2>1. fetch' \in FetchType /\ fetch'.pc \in {"file", "done"} /\ fetch'.range = fetch.range
        /\ fetch'.file \in ModelFiles
    <3>1. fetch \in FetchType /\ fetch.pc = "file" /\ fetch.file \in ModelFiles
      BY <1>1 DEF NextFile, DInv, DTypes, TaskFile, AtFile
    <3>2. CASE fetch' = [fetch EXCEPT !.file = @ + 1] /\ fetch.file < NumFiles
      <4>1. fetch.file + 1 \in ModelFiles /\ fetch.file + 1 \in 0..NumFiles
        BY <3>1, <3>2 DEF ModelFiles
      <4> QED BY <3>1, <3>2, <4>1 DEF FetchType
    <3>3. CASE fetch' = [fetch EXCEPT !.pc = "done"]
      BY <3>1, <3>3 DEF FetchType
    <3> QED BY <1>1, <3>2, <3>3 DEF NextFile
  <2>2. TaskFile' /\ TaskKnows' BY <1>1, <2>1 DEF NextFile, DInv, TaskFile, TaskKnows, AtFile, Fetching
  <2> QED BY <1>1, <2>1, <2>2 DEF NextFile, DInv, DTypes, MarksBacked, Whole, DownloadIsWhole
<1>2. CASE TaskFails
  <2>1. fetch' \in FetchType /\ fetch'.pc = "failed" BY <1>2 DEF TaskFails, Goes, DInv, DTypes, FetchType
  <2>2. TaskFile' /\ TaskKnows' BY <2>1 DEF TaskFile, TaskKnows, AtFile, Fetching
  <2> QED BY <1>2, <2>1, <2>2 DEF TaskFails, DInv, DTypes, MarksBacked, Whole, DownloadIsWhole
<1>3. ASSUME NEW sha \in BOOLEAN, Probe(sha) PROVE DInv'
  <2>1. hub.length \in Lengths /\ hub.version \in Contents BY DEF DInv, DTypes
  <2>2. PICK known \in {hub.version, 0} :
          fetch' = [fetch EXCEPT !.pc = "open", !.total = hub.length, !.sha = known]
    BY <1>3, Zenon DEF Probe
  <2>3. fetch.pc = "file" /\ ~disk[fetch.file].placed /\ UNCHANGED <<hub, disk, regrown>>
    BY <1>3, Zenon DEF Probe, Here
  <2>4. fetch' \in FetchType /\ fetch'.pc = "open" /\ fetch'.range = fetch.range
        /\ fetch'.file = fetch.file /\ fetch'.total \in Lengths
    BY <2>1, <2>2 DEF DInv, DTypes, FetchType
  <2>5. TaskFile' /\ TaskKnows'
    BY <2>3, <2>4 DEF DInv, TaskFile, TaskKnows, AtFile, Fetching
  <2> QED BY <2>3, <2>4, <2>5 DEF DInv, DTypes, MarksBacked, Whole, DownloadIsWhole
<1>4. CASE Upload
  <2>1. hub' \in [version : 1..MaxVersions, length : Lengths]
    BY <1>4 DEF Upload, DInv, DTypes
  <2> QED BY <1>4, <2>1 DEF Upload, DInv, DTypes, TaskFile, MarksBacked, TaskKnows, Whole, DownloadIsWhole
<1> QED BY <1>1, <1>2, <1>3, <1>4

\* open_preallocated: a part it grew either has no marks or counts as re-grown.
LEMMA OpenStep ==
    ASSUME DInv, OpenPreallocated
    PROVE  DInv'
PROOF
<1> USE ConstantTypes, DownloadAssumption
<1> DEFINE f == fetch.file
           grown == [disk[f].part EXCEPT !.len = fetch.total, !.firm = FALSE]
           unbacked == disk[f].part.len # fetch.total
           p == IF unbacked THEN grown ELSE disk[f].part
<1>1. /\ fetch.pc = "open" /\ f \in ModelFiles /\ ~disk[f].placed /\ fetch.total \in Lengths
      /\ disk[f].part \in PartType /\ disk[f].bitmap \in BitmapType /\ fetch \in FetchType
      /\ \A c \in Ranges : fetch.range[c] \in {"idle", "done"}
  BY DEF OpenPreallocated, DInv, DTypes, TaskFile, TaskKnows, FileType, AtFile, Fetching
<1>2. fetch.total \in 0..3 BY <1>1 DEF Lengths
<1>3. grown \in PartType /\ grown.len = fetch.total /\ grown.cached = disk[f].part.cached
      /\ grown.synced = disk[f].part.synced
  BY <1>1, <1>2 DEF PartType
<1> HIDE DEF grown
<1>4. p \in PartType /\ p.len = fetch.total /\ p.cached = disk[f].part.cached
      /\ p.synced = disk[f].part.synced
  BY <1>1, <1>3
<1>5. Leaves(p, disk[f].bitmap) /\ fetch' = [fetch EXCEPT !.pc = "load", !.unbacked = unbacked]
      /\ hub' = hub
  BY DEF OpenPreallocated, Here, grown
<1>6. regrown' = IF unbacked /\ disk[f].bitmap.done # {} THEN regrown \cup {f} ELSE regrown
  BY DEF OpenPreallocated, Here
<1>7. /\ disk' \in [ModelFiles -> FileType]
      /\ disk'[f].part = p /\ disk'[f].bitmap = disk[f].bitmap
      /\ \A g \in ModelFiles : g # f => disk'[g] = disk[g]
      /\ SamePlaced
  <2> HIDE DEF p
  <2> QED BY <1>1, <1>4, <1>5, LeavesOne DEF DInv
<1>8. fetch' \in FetchType /\ fetch'.pc = "load" /\ fetch'.file = f /\ fetch'.total = fetch.total
      /\ fetch'.range = fetch.range
  BY <1>1, <1>5 DEF FetchType
<1>9. DTypes' BY <1>1, <1>5, <1>6, <1>7, <1>8 DEF DInv, DTypes
<1>10. TaskFile' /\ TaskKnows'
  BY <1>1, <1>4, <1>7, <1>8 DEF TaskFile, TaskKnows, AtFile, Fetching, SamePlaced
<1>11. Whole' BY <1>6, <1>7 DEF DInv, Whole, DownloadIsWhole, SamePlaced
<1>12. MarksBacked'
  <2>1. CASE unbacked
    BY <1>6, <1>7, <2>1 DEF DInv, MarksBacked
  <2>2. CASE ~unbacked
    <3>1. p = disk[f].part BY <2>2
    <3> HIDE DEF p
    <3> QED BY <1>6, <1>7, <2>2, <3>1 DEF DInv, MarksBacked
  <2> QED BY <2>1, <2>2
<1> QED BY <1>9, <1>10, <1>11, <1>12 DEF DInv

\* Manifest::load_or_init and reinit: only marks that are backed are believed.
LEMMA LoadStep ==
    ASSUME DInv, LoadBitmap
    PROVE  DInv'
PROOF
<1> USE ConstantTypes, DownloadAssumption
<1> DEFINE f == fetch.file
           b == [total |-> fetch.total, done |-> TrustedMarks]
           range == [c \in Ranges |-> IF c \in TrustedMarks THEN "done" ELSE "idle"]
<1>1. /\ fetch.pc = "load" /\ f \in ModelFiles /\ ~disk[f].placed /\ fetch.total \in Lengths
      /\ disk[f].part \in PartType /\ disk[f].bitmap \in BitmapType /\ fetch \in FetchType
      /\ disk[f].part.len = fetch.total
  BY DEF LoadBitmap, DInv, DTypes, TaskFile, TaskKnows, FileType, AtFile, Fetching
<1>2. TrustedMarks \subseteq Ranges BY <1>1 DEF TrustedMarks, Here, BitmapType
<1>3. b \in BitmapType /\ b.total = fetch.total /\ b.done = TrustedMarks
  BY <1>1, <1>2 DEF BitmapType
<1>4. range \in [Ranges -> RangeStates] BY DEF RangeStates
<1>5. Leaves(disk[f].part, b) /\ fetch' = [fetch EXCEPT !.pc = "ranges", !.range = range]
      /\ hub' = hub /\ regrown' = regrown \ {g \in {f} : fetch.unbacked}
  BY DEF LoadBitmap, Here
<1> HIDE DEF b
<1>6. /\ disk' \in [ModelFiles -> FileType]
      /\ disk'[f].part = disk[f].part /\ disk'[f].bitmap = b
      /\ \A g \in ModelFiles : g # f => disk'[g] = disk[g]
      /\ SamePlaced
  BY <1>1, <1>3, <1>5, LeavesOne DEF DInv
<1>7. fetch' \in FetchType /\ fetch'.pc = "ranges" /\ fetch'.file = f /\ fetch'.total = fetch.total
      /\ fetch'.range = range
  <2> HIDE DEF range
  <2> QED BY <1>1, <1>4, <1>5 DEF FetchType
<1>8. \A c \in Ranges : range[c] = IF c \in TrustedMarks THEN "done" ELSE "idle" OBVIOUS
<1>9. ASSUME f \notin regrown', NEW c \in TrustedMarks
      PROVE  disk[f].part.cached[c] # 0 /\ disk[f].part.synced[c] # 0
  <2>1. ~fetch.unbacked /\ disk[f].bitmap.total = fetch.total /\ c \in disk[f].bitmap.done
    BY <1>9 DEF TrustedMarks, Here
  <2>2. f \notin regrown BY <1>5, <1>9, <2>1
  <2> QED BY <1>1, <2>1, <2>2 DEF DInv, MarksBacked
<1> HIDE DEF range
<1>10. DTypes' BY <1>5, <1>6, <1>7 DEF DInv, DTypes
<1>11. TaskFile' BY <1>1, <1>6, <1>7 DEF TaskFile, AtFile, Fetching, SamePlaced
<1>12. TaskKnows' BY <1>1, <1>2, <1>3, <1>6, <1>7, <1>8, <1>9 DEF TaskKnows
<1>13. Whole' BY <1>1, <1>5, <1>6 DEF DInv, Whole, DownloadIsWhole, SamePlaced
<1>14. MarksBacked'
  <2>1. b.total # 0 BY <1>1, <1>3
  <2>2. \A g \in ModelFiles : g # f => (g \in regrown' <=> g \in regrown) BY <1>5
  <2> QED BY <1>3, <1>6, <1>9, <2>1, <2>2 DEF DInv, MarksBacked
<1> QED BY <1>10, <1>11, <1>12, <1>13, <1>14 DEF DInv

\* What holds when a range step begins.
LEMMA AtRanges ==
    ASSUME DInv, fetch.pc = "ranges"
    PROVE  /\ fetch.file \in ModelFiles /\ ~disk[fetch.file].placed /\ fetch.total \in Lengths
           /\ disk[fetch.file] \in FileType /\ disk[fetch.file].part \in PartType
           /\ disk[fetch.file].bitmap \in BitmapType /\ fetch \in FetchType
           /\ disk[fetch.file].part.len = fetch.total /\ disk[fetch.file].bitmap.total = fetch.total
           /\ fetch.total # 0
PROOF
  BY ConstantTypes DEF DInv, DTypes, TaskFile, TaskKnows, FileType, AtFile, Fetching

\* A range step sets the state of its range and leaves the rest of the task.
LEMMA SetRangeOne ==
    ASSUME fetch \in FetchType, NEW c \in Ranges, NEW state \in RangeStates, SetRange(c, state)
    PROVE  /\ fetch' \in FetchType /\ fetch'.pc = fetch.pc /\ fetch'.file = fetch.file
           /\ fetch'.total = fetch.total
           /\ fetch'.range[c] = state
           /\ \A o \in Ranges : o # c => fetch'.range[o] = fetch.range[o]
PROOF
<1> DEFINE range == [fetch.range EXCEPT ![c] = state]
<1>1. fetch.range \in [Ranges -> RangeStates] BY DEF FetchType
<1>2. range \in [Ranges -> RangeStates] /\ range[c] = state
      /\ \A o \in Ranges : o # c => range[o] = fetch.range[o]
  BY <1>1
<1>3. fetch' = [fetch EXCEPT !.range = range] BY DEF SetRange
<1> HIDE DEF range
<1>4. fetch' \in FetchType /\ fetch'.pc = fetch.pc /\ fetch'.file = fetch.file
      /\ fetch'.total = fetch.total /\ fetch'.range = range
  BY <1>2, <1>3 DEF FetchType
<1> QED BY <1>2, <1>4

\* fetch_chunk: bytes, then their sync, then the mark.
LEMMA RangeSteps ==
    ASSUME DInv, NEW c \in Ranges, AskRange(c) \/ WriteRange(c) \/ SyncRange(c) \/ MarkRange(c)
    PROVE  DInv'
PROOF
<1> USE ConstantTypes, DownloadAssumption
<1> DEFINE f == fetch.file
<1>0. fetch.pc = "ranges" /\ UNCHANGED <<hub, regrown>>
  BY DEF AskRange, WriteRange, SyncRange, MarkRange
<1>1. /\ f \in ModelFiles /\ ~disk[f].placed /\ fetch.total \in Lengths
      /\ disk[f] \in FileType /\ disk[f].part \in PartType
      /\ disk[f].bitmap \in BitmapType /\ fetch \in FetchType
      /\ disk[f].part.len = fetch.total /\ disk[f].bitmap.total = fetch.total /\ fetch.total # 0
  BY <1>0, AtRanges
<1>2. CASE AskRange(c)
  <2>1. SetRange(c, "asked") /\ disk' = disk /\ fetch.range[c] = "idle" BY <1>2 DEF AskRange
  <2>2. /\ fetch' \in FetchType /\ fetch'.pc = fetch.pc /\ fetch'.file = f
        /\ fetch'.total = fetch.total /\ fetch'.range[c] = "asked"
        /\ \A o \in Ranges : o # c => fetch'.range[o] = fetch.range[o]
    BY <1>1, <2>1, SetRangeOne DEF RangeStates
  <2>3. disk[f].bitmap.done \subseteq Ranges BY <1>1 DEF BitmapType
  <2>4. DTypes' /\ MarksBacked' /\ Whole'
    BY <1>0, <2>1, <2>2 DEF DInv, DTypes, MarksBacked, Whole, DownloadIsWhole
  <2>5. TaskFile' /\ TaskKnows'
    BY <1>0, <1>1, <2>1, <2>2, <2>3 DEF DInv, TaskFile, TaskKnows, AtFile, Fetching
  <2> QED BY <2>4, <2>5 DEF DInv
<1>3. CASE WriteRange(c)
  <2> DEFINE cached == [disk[f].part.cached EXCEPT ![c] = hub.version]
             p == [disk[f].part EXCEPT !.cached = cached]
  <2>1. SetRange(c, "written") /\ fetch.range[c] = "asked" /\ Leaves(p, disk[f].bitmap)
    BY <1>3 DEF WriteRange, Here
  <2>2. hub.version \in Contents /\ hub.version # 0 BY DEF DInv, DTypes
  <2>3. cached \in [Ranges -> Contents] /\ cached[c] # 0
        /\ \A o \in Ranges : o # c => cached[o] = disk[f].part.cached[o]
    BY <1>1, <2>2 DEF PartType
  <2> HIDE DEF cached
  <2>4. p \in PartType /\ p.len = fetch.total /\ p.cached = cached /\ p.synced = disk[f].part.synced
    BY <1>1, <2>3 DEF PartType
  <2> HIDE DEF p
  <2>5. /\ disk' \in [ModelFiles -> FileType]
        /\ disk'[f].part = p /\ disk'[f].bitmap = disk[f].bitmap
        /\ \A g \in ModelFiles : g # f => disk'[g] = disk[g]
        /\ SamePlaced
    BY <1>1, <2>1, <2>4, LeavesOne DEF DInv
  <2>6. /\ fetch' \in FetchType /\ fetch'.pc = fetch.pc /\ fetch'.file = f
        /\ fetch'.total = fetch.total /\ fetch'.range[c] = "written"
        /\ \A o \in Ranges : o # c => fetch'.range[o] = fetch.range[o]
    BY <1>1, <2>1, SetRangeOne DEF RangeStates
  <2>7. disk[f].bitmap.done \subseteq Ranges /\ c \notin disk[f].bitmap.done
    BY <1>0, <1>1, <2>1 DEF DInv, TaskKnows, BitmapType
  <2>8. DTypes' /\ Whole' BY <1>0, <2>5, <2>6 DEF DInv, DTypes, Whole, DownloadIsWhole, SamePlaced
  <2>9. TaskFile' BY <1>0, <1>1, <2>5, <2>6 DEF TaskFile, AtFile, Fetching, SamePlaced
  <2>10. TaskKnows' BY <1>0, <1>1, <2>3, <2>4, <2>5, <2>6, <2>7 DEF DInv, TaskKnows
  <2>11. MarksBacked' BY <1>0, <1>1, <2>3, <2>4, <2>5, <2>7 DEF DInv, MarksBacked
  <2> QED BY <2>8, <2>9, <2>10, <2>11 DEF DInv
<1>4. CASE SyncRange(c)
  <2> DEFINE p == [disk[f].part EXCEPT !.synced = disk[f].part.cached, !.firm = TRUE]
  <2>1. SetRange(c, "synced") /\ fetch.range[c] = "written" /\ Leaves(p, disk[f].bitmap)
    BY <1>4 DEF SyncRange, Here
  <2>2. p \in PartType /\ p.len = fetch.total /\ p.cached = disk[f].part.cached
        /\ p.synced = disk[f].part.cached
    BY <1>1 DEF PartType
  <2> HIDE DEF p
  <2>3. /\ disk' \in [ModelFiles -> FileType]
        /\ disk'[f].part = p /\ disk'[f].bitmap = disk[f].bitmap
        /\ \A g \in ModelFiles : g # f => disk'[g] = disk[g]
        /\ SamePlaced
    BY <1>1, <2>1, <2>2, LeavesOne DEF DInv
  <2>4. /\ fetch' \in FetchType /\ fetch'.pc = fetch.pc /\ fetch'.file = f
        /\ fetch'.total = fetch.total /\ fetch'.range[c] = "synced"
        /\ \A o \in Ranges : o # c => fetch'.range[o] = fetch.range[o]
    BY <1>1, <2>1, SetRangeOne DEF RangeStates
  <2>5. disk[f].bitmap.done \subseteq Ranges /\ c \notin disk[f].bitmap.done
    BY <1>0, <1>1, <2>1 DEF DInv, TaskKnows, BitmapType
  <2>6. DTypes' /\ Whole' BY <1>0, <2>3, <2>4 DEF DInv, DTypes, Whole, DownloadIsWhole, SamePlaced
  <2>7. TaskFile' BY <1>0, <1>1, <2>3, <2>4 DEF TaskFile, AtFile, Fetching, SamePlaced
  <2>8. TaskKnows' BY <1>0, <1>1, <2>1, <2>2, <2>3, <2>4, <2>5 DEF DInv, TaskKnows
  <2>9. MarksBacked' BY <1>0, <1>1, <2>2, <2>3 DEF DInv, MarksBacked
  <2> QED BY <2>6, <2>7, <2>8, <2>9 DEF DInv
<1>5. CASE MarkRange(c)
  <2> DEFINE b == [disk[f].bitmap EXCEPT !.done = @ \cup {c}]
  <2>1. SetRange(c, "done") /\ fetch.range[c] = "synced" /\ Leaves(disk[f].part, b)
    BY <1>5 DEF MarkRange, Here
  <2>2. b \in BitmapType /\ b.total = fetch.total /\ b.done = disk[f].bitmap.done \cup {c}
    BY <1>1 DEF BitmapType
  <2> HIDE DEF b
  <2>3. /\ disk' \in [ModelFiles -> FileType]
        /\ disk'[f].part = disk[f].part /\ disk'[f].bitmap = b
        /\ \A g \in ModelFiles : g # f => disk'[g] = disk[g]
        /\ SamePlaced
    BY <1>1, <2>1, <2>2, LeavesOne DEF DInv
  <2>4. /\ fetch' \in FetchType /\ fetch'.pc = fetch.pc /\ fetch'.file = f
        /\ fetch'.total = fetch.total /\ fetch'.range[c] = "done"
        /\ \A o \in Ranges : o # c => fetch'.range[o] = fetch.range[o]
    BY <1>1, <2>1, SetRangeOne DEF RangeStates
  <2>5. disk[f].bitmap.done \subseteq Ranges BY <1>1 DEF BitmapType
  <2>6. DTypes' /\ Whole' BY <1>0, <2>3, <2>4 DEF DInv, DTypes, Whole, DownloadIsWhole, SamePlaced
  <2>7. TaskFile' BY <1>0, <1>1, <2>3, <2>4 DEF TaskFile, AtFile, Fetching, SamePlaced
  <2>8. TaskKnows' BY <1>0, <1>1, <2>1, <2>2, <2>3, <2>4, <2>5 DEF DInv, TaskKnows
  <2>9. f \notin regrown => disk[f].part.cached[c] # 0 /\ disk[f].part.synced[c] # 0
    BY <1>0, <2>1 DEF DInv, TaskKnows
  <2>10. MarksBacked' BY <1>0, <1>1, <2>2, <2>3, <2>9 DEF DInv, MarksBacked
  <2> QED BY <2>6, <2>7, <2>8, <2>10 DEF DInv
<1> QED BY <1>2, <1>3, <1>4, <1>5

\* verify_and_publish up to the rename: a file with a hash is what the hub
\* serves, one without it has all its ranges.
LEMMA VerifyStep ==
    ASSUME DInv, Verify
    PROVE  DInv'
PROOF
<1> USE ConstantTypes, DownloadAssumption
<1> DEFINE f == fetch.file
<1>0. fetch.pc = "ranges" /\ UNCHANGED <<hub, regrown>> /\ \A c \in Ranges : fetch.range[c] = "done"
  BY DEF Verify
<1>1. /\ f \in ModelFiles /\ ~disk[f].placed /\ fetch.total \in Lengths
      /\ disk[f] \in FileType /\ disk[f].part \in PartType
      /\ disk[f].bitmap \in BitmapType /\ fetch \in FetchType
      /\ disk[f].part.len = fetch.total /\ disk[f].bitmap.total = fetch.total /\ fetch.total # 0
  BY <1>0, AtRanges
<1> DEFINE p == [disk[f].part EXCEPT !.synced = disk[f].part.cached, !.firm = TRUE]
<1>2. p \in PartType /\ p.len = fetch.total /\ p.cached = disk[f].part.cached
      /\ p.synced = disk[f].part.cached
  BY <1>1 DEF PartType
<1>3. \/ Leaves(p, disk[f].bitmap) /\ Goes("publish")
      \/ \E b \in {NoBitmap, disk[f].bitmap} : Leaves(NoPart, b) /\ Goes("failed")
  BY DEF Verify, Here
<1> HIDE DEF p
<1>4. CASE Leaves(p, disk[f].bitmap) /\ Goes("publish")
  <2>1. /\ disk' \in [ModelFiles -> FileType]
        /\ disk'[f].part = p /\ disk'[f].bitmap = disk[f].bitmap
        /\ \A g \in ModelFiles : g # f => disk'[g] = disk[g]
        /\ SamePlaced
    BY <1>1, <1>2, <1>4, LeavesOne DEF DInv
  <2>2. fetch' \in FetchType /\ fetch'.pc = "publish" /\ fetch'.file = f
        /\ fetch'.total = fetch.total /\ fetch'.range = fetch.range
    BY <1>1, <1>4 DEF Goes, FetchType
  <2>3. f \notin regrown => \A c \in Ranges : disk[f].part.cached[c] # 0
    BY <1>0 DEF DInv, TaskKnows
  <2>4. DTypes' /\ Whole' BY <1>0, <2>1, <2>2 DEF DInv, DTypes, Whole, DownloadIsWhole, SamePlaced
  <2>5. TaskFile' /\ TaskKnows'
    BY <1>0, <1>1, <1>2, <2>1, <2>2, <2>3 DEF TaskFile, TaskKnows, AtFile, Fetching, SamePlaced
  <2>6. MarksBacked' BY <1>0, <1>1, <1>2, <2>1 DEF DInv, MarksBacked
  <2> QED BY <2>4, <2>5, <2>6 DEF DInv
<1>5. ASSUME NEW b \in {NoBitmap, disk[f].bitmap}, Leaves(NoPart, b), Goes("failed") PROVE DInv'
  <2>1. b \in BitmapType /\ (b.total = 0 => b.done = {}) /\ NoPart.len = 0
    <3>1. NoPart.len = 0 BY DEF NoPart
    <3>2. NoBitmap.done = {} BY DEF NoBitmap
    <3>3. disk[f].bitmap.total # 0 BY <1>1
    <3> QED BY <1>1, <1>5, <3>1, <3>2, <3>3
  <2>2. /\ disk' \in [ModelFiles -> FileType]
        /\ disk'[f].part = NoPart /\ disk'[f].bitmap = b
        /\ \A g \in ModelFiles : g # f => disk'[g] = disk[g]
        /\ SamePlaced
    BY <1>1, <1>5, <2>1, LeavesOne DEF DInv
  <2>3. fetch' \in FetchType /\ fetch'.pc = "failed" BY <1>1, <1>5 DEF Goes, FetchType
  <2>4. DTypes' /\ Whole' BY <1>0, <2>2, <2>3 DEF DInv, DTypes, Whole, DownloadIsWhole, SamePlaced
  <2>5. TaskFile' /\ TaskKnows' BY <2>3 DEF TaskFile, TaskKnows, AtFile, Fetching
  <2>6. MarksBacked' BY <1>0, <2>1, <2>2 DEF DInv, MarksBacked
  <2> QED BY <2>4, <2>5, <2>6 DEF DInv
<1> QED BY <1>3, <1>4, <1>5

\* The rename of the part and the copy of the blob put a whole file in place; the
\* single stream leaves a whole blob.
LEMMA PlacedSteps ==
    ASSUME DInv, Publish \/ PlaceCached \/ SingleStream
    PROVE  DInv'
PROOF
<1> USE ConstantTypes, DownloadAssumption
<1> DEFINE f == fetch.file
<1>0. UNCHANGED <<hub, regrown>> BY DEF Publish, PlaceCached, SingleStream
<1>1. f \in ModelFiles /\ disk[f] \in FileType /\ disk[f].part \in PartType /\ fetch \in FetchType
      /\ disk[f].bitmap \in BitmapType
  BY DEF Publish, PlaceCached, SingleStream, DInv, DTypes, TaskFile, AtFile, FileType
<1>2. CASE Publish
  <2> DEFINE new == [disk[f] EXCEPT !.dest = disk[f].part.cached, !.placed = TRUE, !.part = NoPart]
  <2>1. new \in FileType /\ new.dest = disk[f].part.cached /\ new.part = NoPart
        /\ new.bitmap = disk[f].bitmap /\ new.placed
        /\ new.blob = disk[f].blob /\ new.copy = disk[f].copy
    BY <1>1 DEF FileType, PartType
  <2>2. disk' = [disk EXCEPT ![f] = new] BY <1>2 DEF Publish, Here
  <2> HIDE DEF new
  <2>3. disk' \in [ModelFiles -> FileType] /\ disk'[f] = new
        /\ \A g \in ModelFiles : g # f => disk'[g] = disk[g]
    BY <1>1, <2>1, <2>2 DEF DInv, DTypes
  <2>4. fetch' \in FetchType /\ fetch'.pc = "clean" /\ fetch'.file = f /\ fetch'.range = fetch.range
    BY <1>1, <1>2 DEF Publish, Goes, FetchType
  <2>5. f \notin regrown => \A c \in Ranges : disk[f].part.cached[c] # 0
    BY <1>2 DEF Publish, DInv, TaskKnows
  <2>6. NoPart.len = 0 BY DEF NoPart
  <2>7. DTypes' BY <1>0, <2>3, <2>4 DEF DInv, DTypes
  <2>8. TaskFile' /\ TaskKnows'
    BY <1>1, <1>2, <2>4 DEF Publish, DInv, TaskFile, TaskKnows, AtFile, Fetching
  <2>9. MarksBacked' BY <1>0, <2>1, <2>3, <2>6 DEF DInv, MarksBacked
  <2>10. Whole' BY <1>0, <2>1, <2>3, <2>5 DEF DInv, Whole, DownloadIsWhole, SamePlaced
  <2> QED BY <2>7, <2>8, <2>9, <2>10 DEF DInv
<1>3. CASE PlaceCached
  <2> DEFINE new == [disk[f] EXCEPT !.dest = disk[f].blob, !.placed = TRUE]
  <2>1. new \in FileType /\ new.dest = disk[f].blob /\ new.part = disk[f].part
        /\ new.bitmap = disk[f].bitmap /\ new.placed
        /\ new.blob = disk[f].blob /\ new.copy = disk[f].copy
    BY <1>1 DEF FileType
  <2>2. disk' = [disk EXCEPT ![f] = new] BY <1>1, <1>3 DEF PlaceCached, Here, DInv, DTypes
  <2> HIDE DEF new
  <2>3. disk' \in [ModelFiles -> FileType] /\ disk'[f] = new
        /\ \A g \in ModelFiles : g # f => disk'[g] = disk[g]
    BY <1>1, <2>1, <2>2 DEF DInv, DTypes
  <2>4. fetch' = fetch /\ fetch.pc = "file" /\ disk[f].copy # "none"
    BY <1>3 DEF PlaceCached, Here
  <2>5. DTypes' BY <1>0, <2>3, <2>4 DEF DInv, DTypes
  <2>6. TaskFile' /\ TaskKnows' BY <2>4 DEF DInv, TaskFile, TaskKnows, Fetching
  <2>7. MarksBacked' BY <1>0, <2>1, <2>3 DEF DInv, MarksBacked
  <2>8. disk[f].copy # "hit" => \A c \in Ranges : disk[f].blob[c] # 0
    BY <1>1, <2>4 DEF DInv, Whole, FileType
  <2>9. Whole' BY <1>0, <2>1, <2>3, <2>8 DEF DInv, Whole, DownloadIsWhole, SamePlaced
  <2> QED BY <2>5, <2>6, <2>7, <2>9 DEF DInv
<1>4. CASE SingleStream
  <2> DEFINE whole == [c \in Ranges |-> hub.version]
             new == [disk[f] EXCEPT !.blob = whole, !.copy = "unsynced"]
  <2>1. hub.version \in Contents /\ hub.version # 0 BY DEF DInv, DTypes
  <2>2. whole \in [Ranges -> Contents] /\ \A c \in Ranges : whole[c] # 0 BY <2>1
  <2> HIDE DEF whole
  <2>3. new \in FileType /\ new.blob = whole /\ new.part = disk[f].part
        /\ new.bitmap = disk[f].bitmap /\ new.placed = disk[f].placed
    BY <1>1, <2>2 DEF FileType
  <2>4. disk' = [disk EXCEPT ![f] = new] BY <1>1, <1>4 DEF SingleStream, DInv, DTypes, whole
  <2> HIDE DEF new
  <2>5. disk' \in [ModelFiles -> FileType] /\ disk'[f] = new
        /\ \A g \in ModelFiles : g # f => disk'[g] = disk[g]
    BY <1>1, <2>3, <2>4 DEF DInv, DTypes
  <2>6. fetch' = fetch /\ fetch.pc = "file" /\ ~disk[f].placed
    BY <1>4 DEF SingleStream, Here
  <2>7. DTypes' BY <1>0, <2>5, <2>6 DEF DInv, DTypes
  <2>8. TaskFile' /\ TaskKnows' BY <2>6 DEF DInv, TaskFile, TaskKnows, Fetching
  <2>9. MarksBacked' BY <1>0, <2>3, <2>5 DEF DInv, MarksBacked
  <2>10. Whole' BY <1>0, <2>2, <2>3, <2>5, <2>6 DEF DInv, Whole, DownloadIsWhole, SamePlaced
  <2> QED BY <2>7, <2>8, <2>9, <2>10 DEF DInv
<1> QED BY <1>2, <1>3, <1>4

\* The bitmap is removed, or stays behind without its part.
LEMMA CleanUpStep ==
    ASSUME DInv, CleanUp
    PROVE  DInv'
PROOF
<1> USE ConstantTypes, DownloadAssumption
<1> DEFINE f == fetch.file
<1>0. fetch.pc = "clean" /\ UNCHANGED <<hub, regrown>> BY DEF CleanUp
<1>1. f \in ModelFiles /\ disk[f] \in FileType /\ disk[f].part \in PartType /\ fetch \in FetchType
      /\ disk[f].bitmap \in BitmapType
  BY <1>0 DEF DInv, DTypes, TaskFile, AtFile, FileType
<1>2. PICK b \in {NoBitmap, disk[f].bitmap} : Leaves(disk[f].part, b)
  BY DEF CleanUp, Here
<1>3. b \in BitmapType BY <1>1
<1>4. b = disk[f].bitmap \/ b.done = {}
  <2>1. NoBitmap.done = {} BY DEF NoBitmap
  <2> QED BY <2>1
<1>5. /\ disk' \in [ModelFiles -> FileType]
      /\ disk'[f].part = disk[f].part /\ disk'[f].bitmap = b
      /\ \A g \in ModelFiles : g # f => disk'[g] = disk[g]
      /\ SamePlaced
  BY <1>1, <1>2, <1>3, LeavesOne DEF DInv
<1>6. fetch' \in FetchType /\ fetch'.pc = "file" /\ fetch'.file = f /\ fetch'.range = fetch.range
  BY <1>1 DEF CleanUp, Goes, FetchType
<1>7. DTypes' /\ Whole' BY <1>0, <1>5, <1>6 DEF DInv, DTypes, Whole, DownloadIsWhole, SamePlaced
<1>8. TaskFile' /\ TaskKnows' BY <1>0, <1>1, <1>6 DEF DInv, TaskFile, TaskKnows, AtFile, Fetching
<1>9. MarksBacked' BY <1>0, <1>1, <1>4, <1>5 DEF DInv, MarksBacked
<1> QED BY <1>7, <1>8, <1>9 DEF DInv

\* A reclaimed part no longer has the length of any bitmap.
LEMMA ReclaimStep ==
    ASSUME DInv, NEW f \in ModelFiles, Reclaim(f)
    PROVE  DInv'
PROOF
<1> USE ConstantTypes, DownloadAssumption
<1>1. disk[f] \in FileType /\ disk[f].part \in PartType /\ disk[f].bitmap \in BitmapType
  BY DEF DInv, DTypes, FileType
<1>2. PICK gone \in SUBSET Ranges, len \in {0, 3} :
        disk' = [disk EXCEPT ![f].part =
            [len |-> len, firm |-> TRUE,
             cached |-> Without(disk[f].part.cached, gone),
             synced |-> Without(disk[f].part.cached, gone)]]
  BY DEF Reclaim
<1> DEFINE left == Without(disk[f].part.cached, gone)
           p == [len |-> len, firm |-> TRUE, cached |-> left, synced |-> left]
           new == [disk[f] EXCEPT !.part = p]
<1>3. left \in [Ranges -> Contents] BY <1>1 DEF PartType, Without
<1>4. disk' = [disk EXCEPT ![f].part = p] BY <1>2
<1> HIDE DEF left
<1>5. p \in PartType /\ p.len = len BY <1>3 DEF PartType
<1> HIDE DEF p
<1>6. new \in FileType /\ new.part = p /\ new.bitmap = disk[f].bitmap
      /\ new.placed = disk[f].placed /\ new.dest = disk[f].dest
      /\ new.blob = disk[f].blob /\ new.copy = disk[f].copy
  BY <1>1, <1>5 DEF FileType
<1>7. disk' = [disk EXCEPT ![f] = new] BY <1>4
<1> HIDE DEF new
<1>8. disk' \in [ModelFiles -> FileType] /\ disk'[f] = new
      /\ \A g \in ModelFiles : g # f => disk'[g] = disk[g]
  BY <1>6, <1>7 DEF DInv, DTypes
<1>9. fetch' = fetch /\ fetch.pc = "none" /\ UNCHANGED <<hub, regrown>>
  <2>1. NoFetch.pc = "none" BY DEF NoFetch
  <2> QED BY <2>1 DEF Reclaim
<1>10. DTypes' BY <1>8, <1>9 DEF DInv, DTypes
<1>11. TaskFile' /\ TaskKnows' BY <1>9 DEF TaskFile, TaskKnows, AtFile, Fetching
<1>12. MarksBacked'
  <2>1. len # disk[f].bitmap.total \/ disk[f].bitmap.total = 0
    BY <1>1 DEF BitmapType
  <2>2. disk[f].bitmap.total = 0 => disk[f].bitmap.done = {} BY DEF DInv, MarksBacked
  <2> QED BY <1>5, <1>6, <1>8, <1>9, <2>1, <2>2 DEF DInv, MarksBacked
<1>13. Whole' BY <1>6, <1>8, <1>9 DEF DInv, Whole, DownloadIsWhole, SamePlaced
<1> QED BY <1>10, <1>11, <1>12, <1>13 DEF DInv

\* A power loss keeps what was synced, so every backed mark stays backed, and what was
\* not copied from the cache stays in place as it was.
LEMMA PowerLossStep ==
    ASSUME DInv, PowerLoss
    PROVE  DInv'
PROOF
<1> USE ConstantTypes, DownloadAssumption
<1>1. PICK kept \in [ModelFiles -> [Ranges -> Contents]], grown \in [ModelFiles -> BOOLEAN],
           lost \in [ModelFiles -> [blob : SUBSET Ranges, dest : SUBSET Ranges]] :
        /\ \A f \in ModelFiles : \A c \in Ranges :
               kept[f][c] \in {disk[f].part.cached[c], disk[f].part.synced[c]}
        /\ \A f \in ModelFiles : disk[f].copy = "none" => lost[f].blob \cup lost[f].dest = {}
        /\ disk' = [f \in ModelFiles |-> AfterLoss(disk[f], kept[f], grown[f], lost[f])]
  BY DEF PowerLoss
<1>2. fetch' \in FetchType /\ fetch'.pc = "none" /\ UNCHANGED <<hub, regrown>>
  <2>1. NoFetch.pc = "none" BY DEF NoFetch
  <2> QED BY <2>1 DEF PowerLoss
<1>3. ASSUME NEW f \in ModelFiles
      PROVE  /\ disk'[f] \in FileType /\ disk'[f].bitmap = disk[f].bitmap
             /\ disk'[f].placed = disk[f].placed
             /\ disk[f].copy = "none" => disk'[f].copy = "none" /\ disk'[f].dest = disk[f].dest
             /\ disk[f].copy # "none" => disk'[f].copy = "hit"
             /\ disk'[f].part.len \in {disk[f].part.len, 3}
             /\ disk'[f].part.cached = kept[f] /\ disk'[f].part.synced = kept[f]
  <2> DEFINE d == disk[f]
             left == disk'[f]
             len == IF d.part.firm \/ grown[f] THEN d.part.len ELSE 3
             p == [len |-> len, firm |-> TRUE, cached |-> kept[f], synced |-> kept[f]]
             blob == Without(d.blob, lost[f].blob)
             dest == Without(d.dest, lost[f].dest)
             copy == IF d.copy = "none" THEN "none" ELSE "hit"
  <2>1. /\ d \in FileType /\ d.part \in PartType
        /\ d.dest \in [Ranges -> Contents] /\ d.blob \in [Ranges -> Contents]
    BY DEF FileType, DInv, DTypes
  <2>2. len \in 0..3 /\ len \in {d.part.len, 3} BY <2>1 DEF PartType
  <2>3. left = [d EXCEPT !.part = p, !.blob = blob, !.dest = dest, !.copy = copy]
    <3>1. left = AfterLoss(d, kept[f], grown[f], lost[f]) BY <1>1
    <3> QED BY <3>1, Zenon DEF AfterLoss
  <2> HIDE DEF len
  <2>4. p \in PartType /\ p.len = len /\ p.cached = kept[f] /\ p.synced = kept[f]
    BY <2>2 DEF PartType
  <2> HIDE DEF p
  <2>5. blob \in [Ranges -> Contents] /\ dest \in [Ranges -> Contents]
    BY <2>1 DEF Without
  <2>6. d.copy = "none" => dest = d.dest
    <3>1. SUFFICES ASSUME lost[f].dest = {} PROVE dest = d.dest BY <1>1
    <3>2. dest = [c \in Ranges |-> d.dest[c]] BY <3>1 DEF Without
    <3> QED BY <2>1, <3>2
  <2>7. /\ copy \in {"none", "unsynced", "hit"} /\ (d.copy = "none" => copy = "none")
        /\ (d.copy # "none" => copy = "hit")
    OBVIOUS
  <2> HIDE DEF blob, dest, copy
  <2> HIDE DEF d, left
  <2>8. /\ left \in FileType /\ left.bitmap = d.bitmap /\ left.placed = d.placed
        /\ left.part = p /\ left.dest = dest /\ left.copy = copy
    BY <2>1, <2>3, <2>4, <2>5, <2>7 DEF FileType
  <2> QED BY <2>2, <2>4, <2>6, <2>7, <2>8 DEF d, left
<1>4. disk' \in [ModelFiles -> FileType]
  <2>1. disk' = [f \in ModelFiles |-> disk'[f]] BY <1>1
  <2> QED BY <1>3, <2>1
<1>5. DTypes' BY <1>2, <1>4 DEF DInv, DTypes
<1>6. TaskFile' /\ TaskKnows' BY <1>2 DEF TaskFile, TaskKnows, AtFile, Fetching
<1>7. Whole'
  <2>1. ASSUME NEW f \in ModelFiles, disk'[f].placed, f \notin regrown, disk'[f].copy # "hit",
               NEW c \in Ranges
        PROVE  disk'[f].dest[c] # 0
    <3>1. disk[f].copy = "none" BY <1>3, <2>1
    <3>2. disk'[f].dest = disk[f].dest /\ disk[f].placed BY <1>3, <2>1, <3>1
    <3> QED BY <2>1, <3>1, <3>2 DEF DInv, Whole, DownloadIsWhole
  <2>2. \A f \in ModelFiles : disk'[f].copy # "unsynced" BY <1>3
  <2> QED BY <1>2, <2>1, <2>2 DEF Whole, DownloadIsWhole
<1>8. MarksBacked'
  <2>1. ASSUME NEW f \in ModelFiles, f \notin regrown, disk'[f].part.len = disk'[f].bitmap.total,
               NEW c \in disk'[f].bitmap.done
        PROVE  kept[f][c] # 0
    <3>1. disk[f].bitmap \in BitmapType BY DEF DInv, DTypes, FileType
    <3>2. disk[f].bitmap.total # 3 /\ c \in Ranges BY <1>3, <2>1, <3>1 DEF BitmapType
    <3>3. disk[f].part.len = disk[f].bitmap.total BY <1>3, <2>1, <3>2
    <3>4. disk[f].part.cached[c] # 0 /\ disk[f].part.synced[c] # 0
      BY <1>3, <2>1, <3>3 DEF DInv, MarksBacked
    <3> QED BY <1>1, <3>2, <3>4
  <2> QED BY <1>2, <1>3, <2>1 DEF DInv, MarksBacked
<1> QED BY <1>5, <1>6, <1>7, <1>8 DEF DInv

-----------------------------------------------------------------------------
\* DInv holds at the start and is kept by every step.
LEMMA DownloadInvariant == DownloadSpec => []DInv
PROOF
<1>1. DownloadInit => DInv
  <2> SUFFICES ASSUME DownloadInit PROVE DInv OBVIOUS
  <2> USE ConstantTypes, DownloadAssumption
  <2>1. fetch.pc = "none" BY DEF DownloadInit, NoFetch
  <2>2. \A f \in ModelFiles : disk[f] = Nothing BY DEF DownloadInit
  <2>3. Nothing.placed = FALSE /\ Nothing.bitmap.done = {} /\ Nothing.copy = "none"
    BY DEF Nothing, NoBitmap
  <2>4. hub \in [version : 1..MaxVersions, length : Lengths] BY DEF DownloadInit, Lengths
  <2>5. DTypes BY <2>4 DEF DownloadInit, DTypes
  <2>6. TaskFile /\ TaskKnows BY <2>1 DEF TaskFile, TaskKnows, AtFile, Fetching
  <2>7. MarksBacked /\ Whole BY <2>2, <2>3 DEF MarksBacked, Whole, DownloadIsWhole
  <2> QED BY <2>5, <2>6, <2>7 DEF DInv
<1>2. DInv /\ [DownloadNext]_downloadVars => DInv'
  <2> SUFFICES ASSUME DInv, [DownloadNext]_downloadVars PROVE DInv' OBVIOUS
  <2>1. CASE UNCHANGED downloadVars
    BY <2>1 DEF downloadVars, DInv, DTypes, TaskFile, MarksBacked, TaskKnows, Whole, DownloadIsWhole
  <2>2. ASSUME NEW k \in Fetchers, Ensure(k) \/ EnsureLocked(k) \/ FinishDownload(k) PROVE DInv'
    BY <2>2, WaitingSteps
  <2>3. ASSUME RangeFails \/ \E k \in Fetchers : Stalls(k) PROVE DInv'
    BY <2>3, InterruptedSteps
  <2>4. ASSUME NextFile \/ TaskFails \/ (\E sha \in BOOLEAN : Probe(sha)) \/ Upload PROVE DInv'
    BY <2>4, FileSteps
  <2>5. ASSUME NEW c \in Ranges, AskRange(c) \/ WriteRange(c) \/ SyncRange(c) \/ MarkRange(c)
        PROVE  DInv'
    BY <2>5, RangeSteps
  <2>6. ASSUME NEW f \in ModelFiles, Reclaim(f) PROVE DInv'
    BY <2>6, ReclaimStep
  <2> QED BY <2>1, <2>2, <2>3, <2>4, <2>5, <2>6, OpenStep, LoadStep, VerifyStep, PlacedSteps,
             CleanUpStep, PowerLossStep DEF DownloadNext
<1> QED BY <1>1, <1>2, PTL DEF DownloadSpec

\* Whatever was aborted, lost, resumed or reclaimed on the way, a model file in place
\* has no range of preallocated zeros and none that was lost, hash or not.  Left out:
\* a part re-grown under a bitmap that was never reset, and a file copied from
\* hf-hub's cache, where nothing is synced, once there was a power loss.
THEOREM DownloadsAreWhole == DownloadSpec => []DownloadIsWhole
PROOF
<1>1. DInv => DownloadIsWhole BY DEF DInv, Whole
<1> QED BY <1>1, DownloadInvariant, PTL

-----------------------------------------------------------------------------
(* The lane lock: there is a task while one caller runs it, and no other. *)

LaneHeld ==
    /\ fetcher \in [Fetchers -> {"idle", "queued", "running"}]
    /\ \/ fetch = NoFetch /\ \A k \in Fetchers : fetcher[k] # "running"
       \/ /\ fetch.pc # "none"
          /\ \E k \in Fetchers : /\ fetcher[k] = "running"
                                 /\ \A o \in Fetchers : fetcher[o] = "running" => o = k
    /\ mishaps \in 0..MaxMishaps

\* What the callers do to the lane.
LEMMA CallersKeepLane ==
    ASSUME DInv, LaneHeld, NEW k \in Fetchers,
           Ensure(k) \/ EnsureLocked(k) \/ FinishDownload(k) \/ Stalls(k)
    PROVE  LaneHeld'
PROOF
<1> USE DownloadAssumption
<1>1. /\ fetch \in FetchType /\ NoFetch \in FetchType /\ NoFetch.pc = "none"
      /\ [NoFetch EXCEPT !.pc = "file", !.file = 1].pc = "file"
  BY ConstantTypes DEF DInv, DTypes, NoFetch
<1>2. mishaps' \in 0..MaxMishaps
  BY DEF LaneHeld, Ensure, EnsureLocked, FinishDownload, Stalls, Mishap
<1>3. CASE Ensure(k)
  BY <1>1, <1>2, <1>3 DEF LaneHeld, Ensure
<1>4. CASE EnsureLocked(k)
  <2>1. \A o \in Fetchers : fetcher[o] # "running" BY <1>4 DEF EnsureLocked
  <2>2. CASE fetcher' = [fetcher EXCEPT ![k] = "idle"] /\ UNCHANGED fetch
    BY <1>1, <1>2, <2>1, <2>2 DEF LaneHeld
  <2>3. CASE /\ fetcher' = [fetcher EXCEPT ![k] = "running"]
             /\ fetch' = [NoFetch EXCEPT !.pc = "file", !.file = 1]
    BY <1>1, <1>2, <2>1, <2>3 DEF LaneHeld
  <2> QED BY <1>4, <2>2, <2>3 DEF EnsureLocked
<1>5. CASE FinishDownload(k) \/ Stalls(k)
  <2>1. /\ fetcher[k] = "running" /\ fetch' = NoFetch
        /\ fetcher' = [fetcher EXCEPT ![k] = "idle"]
    BY <1>5 DEF FinishDownload, Stalls
  <2> QED BY <1>1, <1>2, <2>1 DEF LaneHeld
<1> QED BY <1>3, <1>4, <1>5

\* What the task and the environment do to it.
LEMMA TaskKeepsLane ==
    ASSUME DInv, LaneHeld,
           \/ NextFile \/ PlaceCached \/ SingleStream \/ TaskFails \/ OpenPreallocated \/ LoadBitmap
           \/ \E sha \in BOOLEAN : Probe(sha)
           \/ \E c \in Ranges : AskRange(c) \/ WriteRange(c) \/ SyncRange(c) \/ MarkRange(c)
           \/ RangeFails \/ Verify \/ Publish \/ CleanUp
    PROVE  LaneHeld'
PROOF
<1> USE DownloadAssumption
<1>1. fetch \in FetchType /\ NoFetch.pc = "none" BY DEF DInv, DTypes, NoFetch
<1>2. fetch.pc # "none" /\ UNCHANGED fetcher
  BY DEF NextFile, PlaceCached, SingleStream, TaskFails, OpenPreallocated, LoadBitmap, Probe, AskRange,
         WriteRange, SyncRange, MarkRange, RangeFails, Verify, Publish, CleanUp
<1>3. fetch'.pc # "none"
  <2>1. CASE NextFile \/ PlaceCached \/ SingleStream \/ TaskFails \/ Publish \/ CleanUp \/ Verify \/ RangeFails
    BY <1>1, <1>2, <2>1 DEF NextFile, PlaceCached, SingleStream, TaskFails, Publish, CleanUp, Verify, RangeFails,
                            Goes, FetchType
  <2>2. CASE OpenPreallocated \/ LoadBitmap
    BY <1>1, <1>2, <2>2 DEF OpenPreallocated, LoadBitmap, FetchType
  <2>4. ASSUME NEW sha \in BOOLEAN, Probe(sha) PROVE fetch'.pc # "none"
    <3>1. PICK known : fetch' = [fetch EXCEPT !.pc = "open", !.total = hub.length, !.sha = known]
      BY <2>4, Zenon DEF Probe
    <3> QED BY <1>1, <3>1 DEF FetchType
  <2>3. ASSUME NEW c \in Ranges, AskRange(c) \/ WriteRange(c) \/ SyncRange(c) \/ MarkRange(c)
        PROVE  fetch'.pc # "none"
    BY <1>1, <1>2, <2>3 DEF AskRange, WriteRange, SyncRange, MarkRange, SetRange, FetchType
  <2> QED BY <2>1, <2>2, <2>3, <2>4
<1>4. mishaps' \in 0..MaxMishaps
  <2>1. mishaps' = mishaps \/ Mishap
    BY DEF NextFile, PlaceCached, SingleStream, TaskFails, OpenPreallocated, LoadBitmap, Probe, AskRange,
           WriteRange, SyncRange, MarkRange, RangeFails, Verify, Publish, CleanUp
  <2> QED BY <2>1 DEF LaneHeld, Mishap
<1> QED BY <1>1, <1>2, <1>3, <1>4 DEF LaneHeld

\* Files, parts and bitmaps keep their types, and the lane lock keeps the callers
\* of ensure apart: whatever fails, one of them at most runs a task, and there is
\* a task exactly while one does (run_download and finish_download).
THEOREM DownloadTypesOK == DownloadSpec => []DownloadTypeOK
PROOF
<1>1. DownloadInit => LaneHeld
  BY DownloadAssumption DEF DownloadInit, LaneHeld
<1>2. DInv /\ LaneHeld /\ [DownloadNext]_downloadVars => LaneHeld'
  <2> SUFFICES ASSUME DInv, LaneHeld, [DownloadNext]_downloadVars PROVE LaneHeld' OBVIOUS
  <2>1. CASE UNCHANGED downloadVars \/ Upload
    BY <2>1 DEF downloadVars, LaneHeld, Upload
  <2>2. ASSUME NEW k \in Fetchers, Ensure(k) \/ EnsureLocked(k) \/ FinishDownload(k) \/ Stalls(k)
        PROVE  LaneHeld'
    BY <2>2, CallersKeepLane
  <2>3. CASE PowerLoss
    BY <2>3, DownloadAssumption DEF PowerLoss, LaneHeld, Mishap
  <2>4. ASSUME NEW f \in ModelFiles, Reclaim(f) PROVE LaneHeld'
    BY <2>4, DownloadAssumption DEF Reclaim, LaneHeld, Mishap
  <2> QED BY <2>1, <2>2, <2>3, <2>4, TaskKeepsLane DEF DownloadNext
<1>3. DInv /\ LaneHeld => DownloadTypeOK
  <2> SUFFICES ASSUME DInv, LaneHeld PROVE DownloadTypeOK OBVIOUS
  <2> DEFINE running == {k \in Fetchers : fetcher[k] = "running"}
  <2>1. fetch.pc \in {"none", "file", "open", "load", "ranges", "publish", "clean", "done", "failed"}
    BY DEF DInv, DTypes, FetchType
  <2>2. Cardinality(running) = IF fetch = NoFetch THEN 0 ELSE 1
    <3>1. CASE fetch = NoFetch /\ \A k \in Fetchers : fetcher[k] # "running"
      BY <3>1, FS_EmptySet
    <3>2. ASSUME fetch.pc # "none", NEW k \in Fetchers, fetcher[k] = "running",
                 \A o \in Fetchers : fetcher[o] = "running" => o = k
          PROVE  Cardinality(running) = IF fetch = NoFetch THEN 0 ELSE 1
      <4>1. running = {k} BY <3>2
      <4>2. fetch # NoFetch BY <3>2 DEF NoFetch
      <4> QED BY <4>1, <4>2, FS_Singleton
    <3> QED BY <3>1, <3>2 DEF LaneHeld
  <2>3. disk \in [ModelFiles -> [dest : [Ranges -> Contents], placed : BOOLEAN,
                    part : [len : 0..3, firm : BOOLEAN, cached : [Ranges -> Contents],
                            synced : [Ranges -> Contents]],
                    bitmap : [total : {0} \cup Lengths, done : SUBSET Ranges],
                    blob : [Ranges -> Contents], copy : {"none", "unsynced", "hit"}]]
    BY DEF DInv, DTypes, FileType, PartType, BitmapType
  <2> QED BY <2>1, <2>2, <2>3 DEF DownloadTypeOK, DInv, DTypes, LaneHeld
<1> QED BY <1>1, <1>2, <1>3, DownloadInvariant, PTL DEF DownloadSpec

=============================================================================
