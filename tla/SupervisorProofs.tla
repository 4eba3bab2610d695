-------------------------- MODULE SupervisorProofs --------------------------
(***************************************************************************)
(* Proofs about ModelSupervisor: its types, and that until shutdown the    *)
(* process behind a live lease stays resident with the model the request   *)
(* asked for.                                                              *)
(***************************************************************************)
EXTENDS ModelSupervisor, FiniteSetTheorems, TLAPS

AcquireRoutes == {"recycle", "switch", "enter", "recover"}

\* A task inside acquire, or holding what acquire returned.
Acquiring(t) ==
    \/ pc[t] \in {"ceiling", "probe", "check", "recheck", "spawn", "health", "leased"}
    \/ pc[t] \in {"ask", "wait", "lock", "kill"} /\ route[t] \in AcquireRoutes

AcquirersAreCallers ==
    \A t \in Tasks : Acquiring(t) => t \in Callers /\ want[t] \in Models

\* Whoever is between taking and dropping the state mutex is its holder.
HoldersHaveMutex == \A t \in Tasks : pc[t] \in Locked => mutex = t

\* All permits are held by one task or by none.
GateExclusive ==
    \A t, u \in Tasks : permits[t] = "all" /\ u # t => permits[u] = "none"

\* Whoever comes to the mutex through the gate still has its permits.
EnteredThroughGate ==
    \A t \in Tasks :
        /\ pc[t] \in {"lock", "check", "recheck", "kill", "spawn", "health"} =>
            /\ route[t] = "enter" => permits[t] = "one"
            /\ route[t] \in {"recycle", "switch", "recover", "unload"} =>
                  permits[t] = "all"
        /\ pc[t] \in {"check", "recheck", "spawn", "health"} => permits[t] # "none"
        /\ pc[t] = "recheck" => permits[t] = "all"
        /\ pc[t] = "leased" => permits[t] = "one" /\ t \in inFlight

\* While a process is being replaced, nothing is resident; while its health is
\* asked for, it stays the one that was found, or that was launched.
MutexContents ==
    \A t \in Tasks :
        /\ pc[t] \in {"kill", "spawn", "health"} => resident = Nobody
        /\ pc[t] \in {"check", "recheck"} =>
              resident # Nobody /\ resident.spec = want[t]
        /\ pc[t] = "health" => child \in Processes /\ child.spec = want[t]

QuitterStops == pc[Quitter] # "idle" => shutdown

Safe == /\ AcquirersAreCallers /\ HoldersHaveMutex /\ GateExclusive
        /\ EnteredThroughGate /\ MutexContents /\ QuitterStops
        /\ LeaseKeepsItsModel

SInv == TypeOK /\ Safe

----------------------------------------------------------------------------
(* Types. *)

\* What a panel is told is a broadcast; holding one back leaves it one.
LEMMA StatusTyped ==
    /\ \A s \in Statuses, m \in Models \cup {NoModel} : Status(s, m) \in Broadcasts
    /\ \A b \in Broadcasts : [b EXCEPT !.told = FALSE] \in Broadcasts
PROOF
    <1>1. ASSUME NEW s \in Statuses, NEW m \in Models \cup {NoModel}
          PROVE  Status(s, m) \in Broadcasts
        BY DEF Status, Broadcasts
    <1>2. ASSUME NEW b \in Broadcasts
          PROVE  [b EXCEPT !.told = FALSE] \in Broadcasts
        BY DEF Broadcasts
    <1> QED
        BY <1>1, <1>2

\* A task's own step keeps the types.
LEMMA TypeStep ==
    ASSUME TypeOK, AcquirersAreCallers, NEW t \in Tasks, Steps(t)
    PROVE  TypeOK'
PROOF
    <1> USE TasksAssumption, BoundsAssumption
        DEF TypeOK, Goes, GoesFor, Holds, Fault, Statuses,
            taskVars, gateVars, stateVars, flagVars, osVars
    <1>0. /\ child.pid \in Pids \cup {0} /\ child.spec \in Models \cup {NoModel}
          /\ resident.pid \in Pids \cup {0} /\ resident.spec \in Models \cup {NoModel}
        BY DEF Nobody, Processes
    <1>1. CASE Asks(t)
        BY <1>1 DEF Asks, Points
    <1>2. CASE GateGrants(t)
        BY <1>2 DEF GateGrants, Points
    <1>3. CASE ProbesCeiling(t) \/ ProbesSwitch(t)
        BY <1>3 DEF ProbesCeiling, ProbesSwitch, Points, Routes
    <1>4. CASE LocksToRecycle(t)
        <2>1. shown' \in Broadcasts
            BY StatusTyped, <1>0, <1>4 DEF LocksToRecycle, Restarts
        <2> QED
            BY SMTT(30), <1>4, <2>1 DEF LocksToRecycle, Restarts, Evacuates, Points
    <1>5. CASE LocksToSwitch(t)
        BY ZenonT(40), <1>5 DEF LocksToSwitch, Restarts, Evacuates, Points
    <1>6. CASE LocksToEnter(t)
        BY <1>6 DEF LocksToEnter, Restarts, Points
    <1>7. CASE FindsHealthy(t)
        <2>1. t \in Callers
            BY <1>7 DEF FindsHealthy, AcquirersAreCallers, Acquiring
        <2>2. bound' \in [Callers -> Pids \cup {0}]
            BY <1>7, <1>0, <2>1 DEF FindsHealthy, Leases
        <2>3. inFlight' \subseteq Callers /\ expired' \in BOOLEAN
            BY <1>7, <2>1 DEF FindsHealthy, Leases
        <2> QED
            BY <1>7, <2>2, <2>3 DEF FindsHealthy, Leases, Points
    <1>8. CASE FindsSick(t)
        BY <1>8 DEF FindsSick, Points, Routes
    <1>9. CASE LocksToRecover(t)
        <2>1. shown' \in Broadcasts
            BY StatusTyped, <1>9 DEF LocksToRecover, Restarts, AcquirersAreCallers, Acquiring,
               AcquireRoutes
        <2> QED
            BY SMTT(30), <1>9, <2>1 DEF LocksToRecover, Restarts, Evacuates, Points
    <1>10. CASE Rechecks(t)
        <2>1. shown' \in Broadcasts
            BY StatusTyped, <1>10 DEF Rechecks, Restarts, AcquirersAreCallers, Acquiring
        <2> QED
            BY SMTT(30), <1>10, <2>1 DEF Rechecks, Restarts, Evacuates, Points
    <1>11. CASE Kills(t)
        <2>1. Goes(t, "idle") \/ Goes(t, "spawn")
            BY <1>11 DEF Kills, AfterKill
        <2>2. mutex' \in {mutex, "none"} /\ (permits' = permits \/ Holds(t, "none"))
            BY <1>11 DEF Kills, AfterKill
        <2>3. shown' \in Broadcasts
            BY StatusTyped, <1>11, <1>0 DEF Kills, AfterKill
        <2>4. os' \in [Pids -> {"gone", "loading", "up", "sick", "stuck"}]
            BY <1>11 DEF Kills
        <2> QED
            BY <1>11, <2>1, <2>2, <2>3, <2>4 DEF Kills, Points
    <1>12. CASE Launches(t)
        <2>1. shown' \in Broadcasts
            BY StatusTyped, <1>12 DEF Launches, AcquirersAreCallers, Acquiring
        <2> QED
            BY <1>12, <2>1
            DEF Launches, Points, Processes, AcquirersAreCallers, Acquiring
    <1>13. CASE LaunchFails(t)
        <2>1. /\ Goes(t, "idle") \/ Goes(t, "spawn")
              /\ tries' \in 0..(Attempts - 1)
            BY SMTT(30), <1>13 DEF LaunchFails, SpawnFails
        <2>2. mutex' \in {mutex, "none"} /\ (permits' = permits \/ Holds(t, "none"))
            BY <1>13 DEF LaunchFails, SpawnFails
        <2>3. shown' \in Broadcasts
            BY StatusTyped, <1>13 DEF LaunchFails, AcquirersAreCallers, Acquiring
        <2>4. os' \in [Pids -> {"gone", "loading", "up", "sick", "stuck"}]
            BY <1>13 DEF LaunchFails
        <2>5. UNCHANGED <<gateQ, resident, child, flagVars, fat, pidfile, calls>>
            BY <1>13 DEF LaunchFails
        <2>6. UNCHANGED <<route, want, bound>> /\ faults' \in 0..MaxFaults
            BY <1>13 DEF LaunchFails, SpawnFails
        <2> QED
            BY <2>1, <2>2, <2>3, <2>4, <2>5, <2>6 DEF Points
    <1>14. CASE BecomesHealthy(t)
        <2>1. t \in Callers
            BY <1>14 DEF BecomesHealthy, AcquirersAreCallers, Acquiring
        <2>2. bound' \in [Callers -> Pids \cup {0}]
            BY <1>14, <1>0, <2>1 DEF BecomesHealthy, Leases
        <2>3. inFlight' \subseteq Callers /\ expired' \in BOOLEAN
            BY <1>14, <2>1 DEF BecomesHealthy, Leases
        <2>4. shown' \in Broadcasts
            BY StatusTyped, <1>14, <1>0 DEF BecomesHealthy
        <2>5. os' \in [Pids -> {"gone", "loading", "up", "sick", "stuck"}]
            BY <1>14 DEF BecomesHealthy
        <2> QED
            BY <1>14, <2>2, <2>3, <2>4, <2>5 DEF BecomesHealthy, Leases, Points
    <1>15. CASE StartupFails(t)
        <2>1. /\ Goes(t, "idle") \/ Goes(t, "spawn")
              /\ tries' \in 0..(Attempts - 1)
            BY <1>15 DEF StartupFails, SpawnFails
        <2>2. mutex' \in {mutex, "none"} /\ (permits' = permits \/ Holds(t, "none"))
            BY <1>15 DEF StartupFails, SpawnFails
        <2>3. shown' \in Broadcasts
            BY StatusTyped, <1>15, <1>0 DEF StartupFails
        <2>4. /\ os' \in [Pids -> {"gone", "loading", "up", "sick", "stuck"}]
              /\ faults' \in 0..MaxFaults
            BY <1>15 DEF StartupFails
        <2> QED
            BY <1>15, <2>1, <2>2, <2>3, <2>4 DEF StartupFails, Points
    <1>16. CASE DropsLease(t)
        BY <1>16 DEF DropsLease, Points, AcquirersAreCallers, Acquiring
    <1>17. CASE DropsPermit(t)
        BY <1>17 DEF DropsPermit, Points
    <1>18. CASE LocksToUnload(t)
        BY <1>18, <1>0 DEF LocksToUnload, Evacuates, Points
    <1> QED
        BY <1>1, <1>2, <1>3, <1>4, <1>5, <1>6, <1>7, <1>8, <1>9, <1>10, <1>11,
           <1>12, <1>13, <1>14, <1>15, <1>16, <1>17, <1>18 DEF Steps

\* So does every other step.
LEMMA TypeOther ==
    ASSUME TypeOK, UNCHANGED vars \/ Next, ~\E t \in Tasks : Steps(t)
    PROVE  TypeOK'
PROOF
    <1> USE TasksAssumption, BoundsAssumption
        DEF TypeOK, Goes, GoesFor, Holds, Fault, Statuses,
            taskVars, gateVars, stateVars, flagVars, osVars, Points, Routes
    <1>0. Evictor \in Tasks /\ Quitter \in Tasks /\ Callers \subseteq Tasks
          /\ Unloads \subseteq Tasks
        BY DEF Tasks
    <1>1. CASE UNCHANGED vars
        BY <1>1 DEF vars
    <1>2. ASSUME NEW t \in Callers, NEW m \in Models, Call(t, m) PROVE TypeOK'
        BY <1>2, <1>0 DEF Call
    <1>3. ASSUME NEW t \in Unloads, UnloadCall(t) PROVE TypeOK'
        <2>0. t \in Tasks
            BY <1>0
        <2>1. pc' \in [Tasks -> Points] /\ route' \in [Tasks -> Routes]
            BY <1>3, <2>0 DEF UnloadCall
        <2>2. calls' \in 0..MaxCalls
            BY <1>3 DEF UnloadCall
        <2>3. pinned' \in BOOLEAN
            BY <1>3 DEF UnloadCall
        <2> QED
            BY <1>3, <2>1, <2>2, <2>3 DEF UnloadCall
    <1>4. CASE EvictorTicks
        BY <1>4, <1>0 DEF EvictorTicks
    <1>5. CASE LocksToEvict
        BY <1>5, <1>0 DEF LocksToEvict, Evacuates
    <1>6. CASE ShutdownCall
        BY <1>6, <1>0 DEF ShutdownCall
    <1>7. CASE LocksToQuit
        <2>1. pc' \in [Tasks -> Points] /\ mutex' \in Tasks \cup {"none"}
            BY <1>7, <1>0 DEF LocksToQuit, Evacuates
        <2>2. /\ resident' \in Processes \cup {Nobody}
              /\ child' \in Processes \cup {Nobody}
            BY <1>7 DEF LocksToQuit, Evacuates
        <2>3. shown' \in Broadcasts
            BY StatusTyped, <1>7 DEF LocksToQuit
        <2> QED
            BY <1>7, <2>1, <2>2, <2>3 DEF LocksToQuit, Evacuates
    <1>8. ASSUME NEW p \in Pids, ProcessFails(p) \/ Grows(p) PROVE TypeOK'
        BY <1>8 DEF ProcessFails, Grows
    <1>9. CASE IdleTimeout
        BY <1>9 DEF IdleTimeout
    <1>10. ASSUME NEW b \in BOOLEAN, SetBackfillActive(b) PROVE TypeOK'
        BY <1>10 DEF SetBackfillActive
    <1>11. CASE Relaunch
        <2>1. os' \in [Pids -> {"gone", "loading", "up", "sick", "stuck"}]
            BY <1>11 DEF Relaunch, Reaped
        <2>2. faults' \in 0..MaxFaults
            BY <1>11 DEF Relaunch
        <2>3. shown' \in Broadcasts
            BY StatusTyped, <1>11 DEF Relaunch
        <2>4. /\ pc' \in [Tasks -> Points] /\ route' \in [Tasks -> Routes]
              /\ want' \in [Callers -> Models \cup {NoModel}]
              /\ bound' \in [Callers -> Pids \cup {0}]
              /\ permits' \in [Tasks -> {"none", "one", "all"}]
            BY <1>11 DEF Relaunch
        <2>5. /\ gateQ' \in Seq(Tasks) /\ mutex' \in Tasks \cup {"none"}
              /\ resident' = Nobody /\ child' = Nobody
              /\ tries' \in 0..(Attempts - 1) /\ inFlight' \subseteq Callers
            BY <1>11 DEF Relaunch
        <2>6. /\ expired' \in BOOLEAN /\ pinned' \in BOOLEAN
              /\ pinSpec' \in Models \cup {NoModel}
              /\ backfill' \in BOOLEAN /\ shutdown' \in BOOLEAN
              /\ fat' \subseteq Pids /\ pidfile' \in Pids \cup {0} /\ calls' = calls
            BY <1>11 DEF Relaunch
        <2> QED
            BY <2>1, <2>2, <2>3, <2>4, <2>5, <2>6
    <1> QED
        BY <1>1, <1>2, <1>3, <1>4, <1>5, <1>6, <1>7, <1>8, <1>9, <1>10, <1>11 DEF Next

----------------------------------------------------------------------------
(* The lease. *)

\* What a step of a task leaves alone in the others.
LEMMA Frame ==
    ASSUME TypeOK, NEW t \in Tasks, Steps(t)
    PROVE  /\ pc[t] # "idle" /\ shutdown' = shutdown /\ want' = want
           /\ \A u \in Tasks \ {t} : pc'[u] = pc[u]
           /\ \A u \in Callers \ {t} : bound'[u] = bound[u]
PROOF
    <1> USE DEF TypeOK, Goes, GoesFor, taskVars, flagVars
    <1>1. CASE Asks(t)
        BY <1>1 DEF Asks
    <1>2. CASE GateGrants(t)
        BY <1>2 DEF GateGrants
    <1>3. CASE ProbesCeiling(t)
        BY <1>3 DEF ProbesCeiling
    <1>4. CASE ProbesSwitch(t)
        BY <1>4 DEF ProbesSwitch
    <1>5. CASE LocksToRecycle(t)
        BY <1>5 DEF LocksToRecycle, Restarts, Evacuates
    <1>6. CASE LocksToSwitch(t)
        BY <1>6 DEF LocksToSwitch, Restarts, Evacuates
    <1>7. CASE LocksToEnter(t)
        BY <1>7 DEF LocksToEnter, Restarts
    <1>8. CASE FindsHealthy(t)
        BY <1>8 DEF FindsHealthy, Leases
    <1>9. CASE FindsSick(t)
        BY <1>9 DEF FindsSick
    <1>10. CASE LocksToRecover(t)
        BY <1>10 DEF LocksToRecover, Restarts, Evacuates
    <1>11. CASE Rechecks(t)
        BY <1>11 DEF Rechecks, Restarts, Evacuates
    <1>12. CASE Kills(t)
        BY <1>12 DEF Kills, AfterKill
    <1>13. CASE Launches(t)
        BY <1>13 DEF Launches
    <1>14. CASE LaunchFails(t)
        BY <1>14 DEF LaunchFails, SpawnFails
    <1>15. CASE BecomesHealthy(t)
        BY <1>15 DEF BecomesHealthy, Leases
    <1>16. CASE StartupFails(t)
        BY <1>16 DEF StartupFails, SpawnFails
    <1>17. CASE DropsLease(t)
        BY <1>17 DEF DropsLease
    <1>18. CASE DropsPermit(t)
        BY <1>18 DEF DropsPermit
    <1>19. CASE LocksToUnload(t)
        BY <1>19 DEF LocksToUnload, Evacuates
    <1> QED
        BY <1>1, <1>2, <1>3, <1>4, <1>5, <1>6, <1>7, <1>8, <1>9, <1>10, <1>11,
           <1>12, <1>13, <1>14, <1>15, <1>16, <1>17, <1>18, <1>19 DEF Steps

\* The resident process is replaced only while no lease is live (or after
\* shutdown), and a new lease is on the resident process.
LEMMA ResidentStep ==
    ASSUME SInv, NEW t \in Tasks, Steps(t)
    PROVE  /\ \/ resident' = resident
              \/ \A u \in Callers : pc[u] = "leased" => shutdown
           /\ pc'[t] = "leased" => resident' = [pid |-> bound'[t], spec |-> want[t]]
PROOF
    <1> DEFINE NoLease == \A u \in Callers : pc[u] = "leased" => shutdown
    <1>0. Callers \subseteq Tasks
        BY DEF Tasks
    <1>1. ASSUME permits[t] = "all", pc[t] # "leased" PROVE NoLease
        BY <1>0, <1>1 DEF SInv, Safe, GateExclusive, EnteredThroughGate
    <1>2. ASSUME resident = Nobody PROVE NoLease
        BY <1>0, <1>2, TasksAssumption
        DEF SInv, Safe, LeaseKeepsItsModel, AcquirersAreCallers, Acquiring, Nobody, NoModel
    <1>3. CASE LocksToRecycle(t)
        BY <1>1, <1>3 DEF LocksToRecycle, Restarts, Evacuates, SInv, TypeOK, Goes,
           Safe, EnteredThroughGate
    <1>4. CASE LocksToSwitch(t)
        BY <1>1, <1>4 DEF LocksToSwitch, Restarts, Evacuates, SInv, TypeOK, Goes,
           Safe, EnteredThroughGate
    <1>5. CASE LocksToRecover(t)
        BY <1>1, <1>5 DEF LocksToRecover, Restarts, Evacuates, SInv, TypeOK, Goes,
           Safe, EnteredThroughGate
    <1>6. CASE LocksToUnload(t)
        BY <1>1, <1>6 DEF LocksToUnload, Evacuates, SInv, TypeOK, Goes, stateVars,
           Safe, EnteredThroughGate
    <1>7. CASE Rechecks(t)
        BY <1>1, <1>7 DEF Rechecks, Restarts, Evacuates, SInv, TypeOK, Goes,
           Safe, EnteredThroughGate
    <1>8. ASSUME NEW q \in Processes PROVE q = [pid |-> q.pid, spec |-> q.spec]
        BY DEF Processes
    <1>9. CASE FindsHealthy(t)
        <2>1. resident \in Processes /\ resident.spec = want[t] /\ t \in Callers
            BY <1>9 DEF FindsHealthy, SInv, TypeOK, Safe, MutexContents,
               AcquirersAreCallers, Acquiring
        <2>2. bound'[t] = resident.pid /\ resident' = resident
            BY <1>9, <2>1 DEF FindsHealthy, Leases, SInv, TypeOK
        <2> QED
            BY <1>8, <2>1, <2>2
    <1>10. CASE BecomesHealthy(t)
        <2>1. child \in Processes /\ child.spec = want[t] /\ t \in Callers
              /\ resident = Nobody
            BY <1>10 DEF BecomesHealthy, SInv, Safe, MutexContents,
               AcquirersAreCallers, Acquiring
        <2>2. bound'[t] = child.pid /\ resident' = child
            BY <1>10, <2>1 DEF BecomesHealthy, Leases, SInv, TypeOK
        <2> QED
            BY <1>2, <1>8, <2>1, <2>2
    <1>11. CASE Asks(t) \/ GateGrants(t) \/ ProbesCeiling(t) \/
                ProbesSwitch(t) \/ LocksToEnter(t) \/ FindsSick(t) \/ Kills(t)
                \/ Launches(t) \/ LaunchFails(t) \/ StartupFails(t) \/
                DropsLease(t) \/ DropsPermit(t)
        BY <1>11 DEF Asks, GateGrants, ProbesCeiling, ProbesSwitch,
           LocksToEnter, FindsSick, Kills, Launches, LaunchFails, StartupFails,
           DropsLease, DropsPermit, Restarts, AfterKill, SpawnFails, Goes,
           GoesFor, stateVars, SInv, TypeOK
    <1> QED
        BY <1>3, <1>4, <1>5, <1>6, <1>7, <1>9, <1>10, <1>11 DEF Steps

\* A task's own step keeps Safe.
LEMMA SafeStep ==
    ASSUME SInv, NEW t \in Tasks, Steps(t)
    PROVE  Safe'
PROOF
    <1> USE DEF TypeOK, Goes, GoesFor, Holds, taskVars, gateVars, stateVars, flagVars
    <1>0. TypeOK /\ AcquirersAreCallers /\ HoldersHaveMutex /\ GateExclusive
          /\ EnteredThroughGate /\ MutexContents /\ QuitterStops /\ LeaseKeepsItsModel
        BY DEF SInv, Safe
    <1> DEFINE Kept == /\ AcquirersAreCallers /\ HoldersHaveMutex /\ GateExclusive
                       /\ EnteredThroughGate /\ MutexContents
    <1>1. ASSUME Asks(t) PROVE Kept'
        <2>1. AcquirersAreCallers'
            BY <1>0, <1>1 DEF Asks, AcquirersAreCallers, Acquiring,
               AcquireRoutes
        <2>2. HoldersHaveMutex'
            BY <1>0, <1>1 DEF Asks, HoldersHaveMutex, Locked
        <2>3. GateExclusive'
            BY <1>0, <1>1 DEF Asks, GateExclusive, EnteredThroughGate
        <2>4. EnteredThroughGate'
            BY <1>0, <1>1 DEF Asks, EnteredThroughGate
        <2>5. MutexContents'
            BY <1>0, <1>1 DEF Asks, MutexContents, HoldersHaveMutex, Locked
        <2> QED
            BY <2>1, <2>2, <2>3, <2>4, <2>5
    <1>2. ASSUME GateGrants(t) PROVE Kept'
        <2>1. AcquirersAreCallers'
            BY <1>0, <1>2 DEF GateGrants, EnoughFor, AcquirersAreCallers,
               Acquiring, AcquireRoutes
        <2>2. HoldersHaveMutex'
            BY <1>0, <1>2 DEF GateGrants, EnoughFor, HoldersHaveMutex, Locked
        <2>3. GateExclusive'
            BY <1>0, <1>2 DEF GateGrants, EnoughFor, GateExclusive,
               EnteredThroughGate
        <2>4. EnteredThroughGate'
            BY <1>0, <1>2 DEF GateGrants, EnoughFor, EnteredThroughGate
        <2>5. MutexContents'
            BY <1>0, <1>2 DEF GateGrants, EnoughFor, MutexContents,
               HoldersHaveMutex, Locked
        <2> QED
            BY <2>1, <2>2, <2>3, <2>4, <2>5
    <1>3. ASSUME ProbesCeiling(t) PROVE Kept'
        <2>1. AcquirersAreCallers'
            BY <1>0, <1>3 DEF ProbesCeiling, OverCeiling, AcquirersAreCallers,
               Acquiring, AcquireRoutes
        <2>2. HoldersHaveMutex'
            BY <1>0, <1>3 DEF ProbesCeiling, OverCeiling, HoldersHaveMutex,
               Locked
        <2>3. GateExclusive'
            BY <1>0, <1>3 DEF ProbesCeiling, OverCeiling, GateExclusive,
               EnteredThroughGate
        <2>4. EnteredThroughGate'
            BY <1>0, <1>3 DEF ProbesCeiling, OverCeiling, EnteredThroughGate
        <2>5. MutexContents'
            BY <1>0, <1>3 DEF ProbesCeiling, OverCeiling, MutexContents,
               HoldersHaveMutex, Locked
        <2> QED
            BY <2>1, <2>2, <2>3, <2>4, <2>5
    <1>4. ASSUME ProbesSwitch(t) PROVE Kept'
        <2>1. AcquirersAreCallers'
            BY <1>0, <1>4 DEF ProbesSwitch, NeedsRestart, AcquirersAreCallers,
               Acquiring, AcquireRoutes
        <2>2. HoldersHaveMutex'
            BY <1>0, <1>4 DEF ProbesSwitch, NeedsRestart, HoldersHaveMutex,
               Locked
        <2>3. GateExclusive'
            BY <1>0, <1>4 DEF ProbesSwitch, NeedsRestart, GateExclusive,
               EnteredThroughGate
        <2>4. EnteredThroughGate'
            BY <1>0, <1>4 DEF ProbesSwitch, NeedsRestart, EnteredThroughGate
        <2>5. MutexContents'
            BY <1>0, <1>4 DEF ProbesSwitch, NeedsRestart, MutexContents,
               HoldersHaveMutex, Locked
        <2> QED
            BY <2>1, <2>2, <2>3, <2>4, <2>5
    <1>5. ASSUME LocksToRecycle(t) PROVE Kept'
        <2>1. AcquirersAreCallers'
            BY <1>0, <1>5 DEF LocksToRecycle, OverCeiling, Restarts, Evacuates,
               AcquirersAreCallers, Acquiring, AcquireRoutes
        <2>2. HoldersHaveMutex'
            BY <1>0, <1>5, TasksAssumption DEF LocksToRecycle, OverCeiling,
               Restarts, Evacuates, HoldersHaveMutex, Locked
        <2>3. GateExclusive'
            BY <1>0, <1>5 DEF LocksToRecycle, OverCeiling, Restarts, Evacuates,
               GateExclusive, EnteredThroughGate
        <2>4. EnteredThroughGate'
            BY <1>0, <1>5 DEF LocksToRecycle, OverCeiling, Restarts, Evacuates,
               EnteredThroughGate
        <2>5. MutexContents'
            BY <1>0, <1>5, TasksAssumption DEF LocksToRecycle, OverCeiling,
               Restarts, Evacuates, MutexContents, HoldersHaveMutex, Locked
        <2> QED
            BY <2>1, <2>2, <2>3, <2>4, <2>5
    <1>6. ASSUME LocksToSwitch(t) PROVE Kept'
        <2>1. AcquirersAreCallers'
            BY <1>0, <1>6 DEF LocksToSwitch, NeedsRestart, Restarts, Evacuates,
               AcquirersAreCallers, Acquiring, AcquireRoutes
        <2>2. HoldersHaveMutex'
            BY <1>0, <1>6, TasksAssumption DEF LocksToSwitch, NeedsRestart,
               Restarts, Evacuates, HoldersHaveMutex, Locked
        <2>3. GateExclusive'
            BY <1>0, <1>6 DEF LocksToSwitch, NeedsRestart, Restarts, Evacuates,
               GateExclusive, EnteredThroughGate
        <2>4. EnteredThroughGate'
            BY <1>0, <1>6 DEF LocksToSwitch, NeedsRestart, Restarts, Evacuates,
               EnteredThroughGate
        <2>5. MutexContents'
            BY <1>0, <1>6, TasksAssumption DEF LocksToSwitch, NeedsRestart,
               Restarts, Evacuates, MutexContents, HoldersHaveMutex, Locked
        <2> QED
            BY <2>1, <2>2, <2>3, <2>4, <2>5
    <1>7. ASSUME LocksToEnter(t) PROVE Kept'
        <2>1. AcquirersAreCallers'
            BY <1>0, <1>7 DEF LocksToEnter, NeedsRestart, Restarts,
               AcquirersAreCallers, Acquiring, AcquireRoutes
        <2>2. HoldersHaveMutex'
            BY <1>0, <1>7, TasksAssumption DEF LocksToEnter, NeedsRestart,
               Restarts, HoldersHaveMutex, Locked
        <2>3. GateExclusive'
            BY <1>0, <1>7 DEF LocksToEnter, NeedsRestart, Restarts,
               GateExclusive, EnteredThroughGate
        <2>4. EnteredThroughGate'
            BY <1>0, <1>7 DEF LocksToEnter, NeedsRestart, Restarts,
               EnteredThroughGate
        <2>5. MutexContents'
            BY <1>0, <1>7, TasksAssumption DEF LocksToEnter, NeedsRestart,
               Restarts, MutexContents, HoldersHaveMutex, Locked
        <2> QED
            BY <2>1, <2>2, <2>3, <2>4, <2>5
    <1>8. ASSUME FindsHealthy(t) PROVE Kept'
        <2>1. AcquirersAreCallers'
            BY <1>0, <1>8 DEF FindsHealthy, Leases, AcquirersAreCallers,
               Acquiring, AcquireRoutes
        <2>2. HoldersHaveMutex'
            BY <1>0, <1>8 DEF FindsHealthy, Leases, HoldersHaveMutex, Locked
        <2>3. GateExclusive'
            BY <1>0, <1>8 DEF FindsHealthy, Leases, GateExclusive,
               EnteredThroughGate
        <2>4. EnteredThroughGate'
            BY <1>0, <1>8 DEF FindsHealthy, Leases, EnteredThroughGate
        <2>5. MutexContents'
            BY <1>0, <1>8 DEF FindsHealthy, Leases, MutexContents,
               HoldersHaveMutex, Locked
        <2> QED
            BY <2>1, <2>2, <2>3, <2>4, <2>5
    <1>9. ASSUME FindsSick(t) PROVE Kept'
        <2>1. AcquirersAreCallers'
            BY <1>0, <1>9 DEF FindsSick, AcquirersAreCallers, Acquiring,
               AcquireRoutes
        <2>2. HoldersHaveMutex'
            BY <1>0, <1>9 DEF FindsSick, HoldersHaveMutex, Locked
        <2>3. GateExclusive'
            BY <1>0, <1>9 DEF FindsSick, GateExclusive, EnteredThroughGate
        <2>4. EnteredThroughGate'
            BY <1>0, <1>9 DEF FindsSick, EnteredThroughGate
        <2>5. MutexContents'
            BY <1>0, <1>9 DEF FindsSick, MutexContents, HoldersHaveMutex,
               Locked
        <2> QED
            BY <2>1, <2>2, <2>3, <2>4, <2>5
    <1>10. ASSUME LocksToRecover(t) PROVE Kept'
        <2>1. AcquirersAreCallers'
            BY <1>0, <1>10 DEF LocksToRecover, NeedsRestart, Restarts,
               Evacuates, AcquirersAreCallers, Acquiring, AcquireRoutes
        <2>2. HoldersHaveMutex'
            BY <1>0, <1>10, TasksAssumption DEF LocksToRecover, NeedsRestart,
               Restarts, Evacuates, HoldersHaveMutex, Locked
        <2>3. GateExclusive'
            BY <1>0, <1>10 DEF LocksToRecover, NeedsRestart, Restarts,
               Evacuates, GateExclusive, EnteredThroughGate
        <2>4. EnteredThroughGate'
            BY <1>0, <1>10 DEF LocksToRecover, NeedsRestart, Restarts,
               Evacuates, EnteredThroughGate
        <2>5. MutexContents'
            BY <1>0, <1>10, TasksAssumption DEF LocksToRecover, NeedsRestart,
               Restarts, Evacuates, MutexContents, HoldersHaveMutex, Locked
        <2> QED
            BY <2>1, <2>2, <2>3, <2>4, <2>5
    <1>11. ASSUME Rechecks(t) PROVE Kept'
        <2>1. AcquirersAreCallers'
            BY <1>0, <1>11 DEF Rechecks, Restarts, Evacuates,
               AcquirersAreCallers, Acquiring, AcquireRoutes
        <2>2. HoldersHaveMutex'
            BY <1>0, <1>11 DEF Rechecks, Restarts, Evacuates, HoldersHaveMutex,
               Locked
        <2>3. GateExclusive'
            BY <1>0, <1>11 DEF Rechecks, Restarts, Evacuates, GateExclusive,
               EnteredThroughGate
        <2>4. EnteredThroughGate'
            BY <1>0, <1>11 DEF Rechecks, Restarts, Evacuates,
               EnteredThroughGate
        <2>5. MutexContents'
            BY <1>0, <1>11 DEF Rechecks, Restarts, Evacuates, MutexContents,
               HoldersHaveMutex, Locked
        <2> QED
            BY <2>1, <2>2, <2>3, <2>4, <2>5
    <1>12. ASSUME Kills(t) PROVE Kept'
        <2>1. AcquirersAreCallers'
            BY <1>0, <1>12 DEF Kills, AfterKill, AcquirersAreCallers,
               Acquiring, AcquireRoutes
        <2>2. HoldersHaveMutex'
            BY <1>0, <1>12 DEF Kills, AfterKill, HoldersHaveMutex, Locked
        <2>3. GateExclusive'
            BY <1>0, <1>12 DEF Kills, AfterKill, GateExclusive,
               EnteredThroughGate
        <2>4. EnteredThroughGate'
            BY <1>0, <1>12 DEF Kills, AfterKill, EnteredThroughGate
        <2>5. MutexContents'
            BY <1>0, <1>12 DEF Kills, AfterKill, MutexContents,
               HoldersHaveMutex, Locked
        <2> QED
            BY <2>1, <2>2, <2>3, <2>4, <2>5
    <1>13. ASSUME Launches(t) PROVE Kept'
        <2>1. AcquirersAreCallers'
            BY <1>0, <1>13 DEF Launches, AcquirersAreCallers, Acquiring,
               AcquireRoutes
        <2>2. HoldersHaveMutex'
            BY <1>0, <1>13 DEF Launches, HoldersHaveMutex, Locked
        <2>3. GateExclusive'
            BY <1>0, <1>13 DEF Launches, GateExclusive, EnteredThroughGate
        <2>4. EnteredThroughGate'
            BY <1>0, <1>13 DEF Launches, EnteredThroughGate
        <2>5. MutexContents'
            BY <1>0, <1>13 DEF Launches, MutexContents, HoldersHaveMutex,
               Locked, AcquirersAreCallers, Acquiring, Processes
        <2> QED
            BY <2>1, <2>2, <2>3, <2>4, <2>5
    <1>14. ASSUME LaunchFails(t) PROVE Kept'
        <2>1. AcquirersAreCallers'
            BY <1>0, <1>14 DEF LaunchFails, SpawnFails, AcquirersAreCallers,
               Acquiring, AcquireRoutes
        <2>2. HoldersHaveMutex'
            BY <1>0, <1>14 DEF LaunchFails, SpawnFails, HoldersHaveMutex,
               Locked
        <2>3. GateExclusive'
            BY <1>0, <1>14 DEF LaunchFails, SpawnFails, GateExclusive,
               EnteredThroughGate
        <2>4. EnteredThroughGate'
            BY <1>0, <1>14 DEF LaunchFails, SpawnFails, EnteredThroughGate
        <2>5. MutexContents'
            BY <1>0, <1>14 DEF LaunchFails, SpawnFails, MutexContents,
               HoldersHaveMutex, Locked
        <2> QED
            BY <2>1, <2>2, <2>3, <2>4, <2>5
    <1>15. ASSUME BecomesHealthy(t) PROVE Kept'
        <2>1. AcquirersAreCallers'
            BY <1>0, <1>15 DEF BecomesHealthy, Leases, AcquirersAreCallers,
               Acquiring, AcquireRoutes
        <2>2. HoldersHaveMutex'
            BY <1>0, <1>15 DEF BecomesHealthy, Leases, HoldersHaveMutex, Locked
        <2>3. GateExclusive'
            BY <1>0, <1>15 DEF BecomesHealthy, Leases, GateExclusive,
               EnteredThroughGate
        <2>4. EnteredThroughGate'
            BY <1>0, <1>15 DEF BecomesHealthy, Leases, EnteredThroughGate
        <2>5. MutexContents'
            BY <1>0, <1>15 DEF BecomesHealthy, Leases, MutexContents,
               HoldersHaveMutex, Locked
        <2> QED
            BY <2>1, <2>2, <2>3, <2>4, <2>5
    <1>16. ASSUME StartupFails(t) PROVE Kept'
        <2>1. AcquirersAreCallers'
            BY <1>0, <1>16 DEF StartupFails, SpawnFails, AcquirersAreCallers,
               Acquiring, AcquireRoutes
        <2>2. HoldersHaveMutex'
            BY <1>0, <1>16 DEF StartupFails, SpawnFails, HoldersHaveMutex,
               Locked
        <2>3. GateExclusive'
            BY <1>0, <1>16 DEF StartupFails, SpawnFails, GateExclusive,
               EnteredThroughGate
        <2>4. EnteredThroughGate'
            BY <1>0, <1>16 DEF StartupFails, SpawnFails, EnteredThroughGate
        <2>5. MutexContents'
            BY <1>0, <1>16 DEF StartupFails, SpawnFails, MutexContents,
               HoldersHaveMutex, Locked
        <2> QED
            BY <2>1, <2>2, <2>3, <2>4, <2>5
    <1>17. ASSUME DropsLease(t) PROVE Kept'
        <2>1. AcquirersAreCallers'
            BY <1>0, <1>17 DEF DropsLease, AcquirersAreCallers, Acquiring,
               AcquireRoutes
        <2>2. HoldersHaveMutex'
            BY <1>0, <1>17 DEF DropsLease, HoldersHaveMutex, Locked
        <2>3. GateExclusive'
            BY <1>0, <1>17 DEF DropsLease, GateExclusive, EnteredThroughGate
        <2>4. EnteredThroughGate'
            BY <1>0, <1>17 DEF DropsLease, EnteredThroughGate
        <2>5. MutexContents'
            BY <1>0, <1>17 DEF DropsLease, MutexContents, HoldersHaveMutex,
               Locked
        <2> QED
            BY <2>1, <2>2, <2>3, <2>4, <2>5
    <1>18. ASSUME DropsPermit(t) PROVE Kept'
        <2>1. AcquirersAreCallers'
            BY <1>0, <1>18 DEF DropsPermit, AcquirersAreCallers, Acquiring,
               AcquireRoutes
        <2>2. HoldersHaveMutex'
            BY <1>0, <1>18 DEF DropsPermit, HoldersHaveMutex, Locked
        <2>3. GateExclusive'
            BY <1>0, <1>18 DEF DropsPermit, GateExclusive, EnteredThroughGate
        <2>4. EnteredThroughGate'
            BY <1>0, <1>18 DEF DropsPermit, EnteredThroughGate
        <2>5. MutexContents'
            BY <1>0, <1>18 DEF DropsPermit, MutexContents, HoldersHaveMutex,
               Locked
        <2> QED
            BY <2>1, <2>2, <2>3, <2>4, <2>5
    <1>19. ASSUME LocksToUnload(t) PROVE Kept'
        <2>1. AcquirersAreCallers'
            BY <1>0, <1>19 DEF LocksToUnload, Evacuates, AcquirersAreCallers,
               Acquiring, AcquireRoutes
        <2>2. HoldersHaveMutex'
            BY <1>0, <1>19, TasksAssumption DEF LocksToUnload, Evacuates,
               HoldersHaveMutex, Locked
        <2>3. GateExclusive'
            BY <1>0, <1>19 DEF LocksToUnload, Evacuates, GateExclusive,
               EnteredThroughGate
        <2>4. EnteredThroughGate'
            BY <1>0, <1>19 DEF LocksToUnload, Evacuates, EnteredThroughGate
        <2>5. MutexContents'
            BY <1>0, <1>19, TasksAssumption DEF LocksToUnload, Evacuates,
               MutexContents, HoldersHaveMutex, Locked
        <2> QED
            BY <2>1, <2>2, <2>3, <2>4, <2>5
    <1>20. Kept'
        BY <1>1, <1>2, <1>3, <1>4, <1>5, <1>6, <1>7, <1>8, <1>9, <1>10, <1>11,
           <1>12, <1>13, <1>14, <1>15, <1>16, <1>17, <1>18, <1>19 DEF Steps
    <1>21. QuitterStops'
        BY <1>0, Frame, TasksAssumption DEF QuitterStops, Tasks
    <1>22. LeaseKeepsItsModel'
        BY <1>0, Frame, ResidentStep DEF LeaseKeepsItsModel, Tasks
    <1> QED
        BY <1>20, <1>21, <1>22 DEF Safe

\* So do the calls, the evictor, shutdown and the environment.
LEMMA SafeOther ==
    ASSUME SInv, UNCHANGED vars \/ Next, ~\E t \in Tasks : Steps(t)
    PROVE  Safe'
PROOF
    <1> USE TasksAssumption
        DEF TypeOK, Goes, GoesFor, taskVars, gateVars, stateVars, flagVars
    <1>0. TypeOK /\ AcquirersAreCallers /\ HoldersHaveMutex /\ GateExclusive
          /\ EnteredThroughGate /\ MutexContents /\ QuitterStops /\ LeaseKeepsItsModel
        BY DEF SInv, Safe
    <1>1. Evictor \in Tasks /\ Quitter \in Tasks /\ Callers \subseteq Tasks
          /\ Unloads \subseteq Tasks
        BY DEF Tasks
    <1>2. CASE UNCHANGED vars
        <2>1. UNCHANGED <<pc, route, want, bound, permits, mutex, resident, child,
                          inFlight, shutdown>>
            BY <1>2 DEF vars
        <2> QED
            BY <1>0, <2>1 DEF Safe, AcquirersAreCallers, HoldersHaveMutex,
               GateExclusive, EnteredThroughGate, MutexContents, QuitterStops,
               LeaseKeepsItsModel, Acquiring
    <1>3. ASSUME NEW t \in Callers, NEW m \in Models, Call(t, m) PROVE Safe'
        <2>1. AcquirersAreCallers'
            BY <1>0, <1>1, <1>3 DEF Call, AcquirersAreCallers, Acquiring,
               AcquireRoutes
        <2>2. HoldersHaveMutex'
            BY <1>0, <1>1, <1>3 DEF Call, HoldersHaveMutex, Locked
        <2>3. GateExclusive'
            BY <1>0, <1>1, <1>3 DEF Call, GateExclusive, EnteredThroughGate
        <2>4. EnteredThroughGate'
            BY <1>0, <1>1, <1>3 DEF Call, EnteredThroughGate
        <2>5. MutexContents'
            BY <1>0, <1>1, <1>3 DEF Call, MutexContents, HoldersHaveMutex,
               Locked
        <2>6. QuitterStops'
            BY <1>0, <1>1, <1>3 DEF Call, QuitterStops
        <2>7. LeaseKeepsItsModel'
            BY <1>0, <1>1, <1>3 DEF Call, LeaseKeepsItsModel,
               EnteredThroughGate, QuitterStops
        <2> QED
            BY <2>1, <2>2, <2>3, <2>4, <2>5, <2>6, <2>7 DEF Safe
    <1>4. ASSUME NEW t \in Unloads, UnloadCall(t) PROVE Safe'
        <2>1. AcquirersAreCallers'
            BY <1>0, <1>1, <1>4 DEF UnloadCall, AcquirersAreCallers, Acquiring,
               AcquireRoutes
        <2>2. HoldersHaveMutex'
            BY <1>0, <1>1, <1>4 DEF UnloadCall, HoldersHaveMutex, Locked
        <2>3. GateExclusive'
            BY <1>0, <1>1, <1>4 DEF UnloadCall, GateExclusive,
               EnteredThroughGate
        <2>4. EnteredThroughGate'
            BY <1>0, <1>1, <1>4 DEF UnloadCall, EnteredThroughGate
        <2>5. MutexContents'
            BY <1>0, <1>1, <1>4 DEF UnloadCall, MutexContents,
               HoldersHaveMutex, Locked
        <2>6. QuitterStops'
            BY <1>0, <1>1, <1>4 DEF UnloadCall, QuitterStops
        <2>7. LeaseKeepsItsModel'
            BY <1>0, <1>1, <1>4 DEF UnloadCall, LeaseKeepsItsModel,
               EnteredThroughGate, QuitterStops
        <2> QED
            BY <2>1, <2>2, <2>3, <2>4, <2>5, <2>6, <2>7 DEF Safe
    <1>5. CASE EvictorTicks
        <2>1. AcquirersAreCallers'
            BY <1>0, <1>1, <1>5 DEF EvictorTicks, AcquirersAreCallers,
               Acquiring, AcquireRoutes
        <2>2. HoldersHaveMutex'
            BY <1>0, <1>1, <1>5 DEF EvictorTicks, HoldersHaveMutex, Locked
        <2>3. GateExclusive'
            BY <1>0, <1>1, <1>5 DEF EvictorTicks, GateExclusive,
               EnteredThroughGate
        <2>4. EnteredThroughGate'
            BY <1>0, <1>1, <1>5 DEF EvictorTicks, EnteredThroughGate
        <2>5. MutexContents'
            BY <1>0, <1>1, <1>5 DEF EvictorTicks, MutexContents,
               HoldersHaveMutex, Locked
        <2>6. QuitterStops'
            BY <1>0, <1>1, <1>5 DEF EvictorTicks, QuitterStops
        <2>7. LeaseKeepsItsModel'
            BY <1>0, <1>1, <1>5 DEF EvictorTicks, LeaseKeepsItsModel,
               EnteredThroughGate, QuitterStops
        <2> QED
            BY <2>1, <2>2, <2>3, <2>4, <2>5, <2>6, <2>7 DEF Safe
    <1>6. CASE LocksToEvict
        <2>1. AcquirersAreCallers'
            BY <1>0, <1>1, <1>6 DEF LocksToEvict, Evacuates,
               AcquirersAreCallers, Acquiring, AcquireRoutes
        <2>2. HoldersHaveMutex'
            BY <1>0, <1>1, <1>6 DEF LocksToEvict, Evacuates, HoldersHaveMutex,
               Locked
        <2>3. GateExclusive'
            BY <1>0, <1>1, <1>6 DEF LocksToEvict, Evacuates, GateExclusive,
               EnteredThroughGate
        <2>4. EnteredThroughGate'
            BY <1>0, <1>1, <1>6 DEF LocksToEvict, Evacuates, EnteredThroughGate
        <2>5. MutexContents'
            BY <1>0, <1>1, <1>6 DEF LocksToEvict, Evacuates, MutexContents,
               HoldersHaveMutex, Locked
        <2>6. QuitterStops'
            BY <1>0, <1>1, <1>6 DEF LocksToEvict, Evacuates, QuitterStops
        <2>7. LeaseKeepsItsModel'
            BY <1>0, <1>1, <1>6 DEF LocksToEvict, Evacuates,
               LeaseKeepsItsModel, EnteredThroughGate, QuitterStops
        <2> QED
            BY <2>1, <2>2, <2>3, <2>4, <2>5, <2>6, <2>7 DEF Safe
    <1>7. CASE ShutdownCall
        <2>1. AcquirersAreCallers'
            BY <1>0, <1>1, <1>7 DEF ShutdownCall, AcquirersAreCallers,
               Acquiring, AcquireRoutes
        <2>2. HoldersHaveMutex'
            BY <1>0, <1>1, <1>7 DEF ShutdownCall, HoldersHaveMutex, Locked
        <2>3. GateExclusive'
            BY <1>0, <1>1, <1>7 DEF ShutdownCall, GateExclusive,
               EnteredThroughGate
        <2>4. EnteredThroughGate'
            BY <1>0, <1>1, <1>7 DEF ShutdownCall, EnteredThroughGate
        <2>5. MutexContents'
            BY <1>0, <1>1, <1>7 DEF ShutdownCall, MutexContents,
               HoldersHaveMutex, Locked
        <2>6. QuitterStops'
            BY <1>0, <1>1, <1>7 DEF ShutdownCall, QuitterStops
        <2>7. LeaseKeepsItsModel'
            BY <1>0, <1>1, <1>7 DEF ShutdownCall, LeaseKeepsItsModel,
               EnteredThroughGate, QuitterStops
        <2> QED
            BY <2>1, <2>2, <2>3, <2>4, <2>5, <2>6, <2>7 DEF Safe
    <1>8. CASE LocksToQuit
        <2>1. AcquirersAreCallers'
            BY <1>0, <1>1, <1>8 DEF LocksToQuit, Evacuates,
               AcquirersAreCallers, Acquiring, AcquireRoutes
        <2>2. HoldersHaveMutex'
            BY <1>0, <1>1, <1>8 DEF LocksToQuit, Evacuates, HoldersHaveMutex,
               Locked
        <2>3. GateExclusive'
            BY <1>0, <1>1, <1>8 DEF LocksToQuit, Evacuates, GateExclusive,
               EnteredThroughGate
        <2>4. EnteredThroughGate'
            BY <1>0, <1>1, <1>8 DEF LocksToQuit, Evacuates, EnteredThroughGate
        <2>5. MutexContents'
            BY <1>0, <1>1, <1>8 DEF LocksToQuit, Evacuates, MutexContents,
               HoldersHaveMutex, Locked
        <2>6. QuitterStops'
            BY <1>0, <1>1, <1>8 DEF LocksToQuit, Evacuates, QuitterStops
        <2>7. LeaseKeepsItsModel'
            BY <1>0, <1>1, <1>8 DEF LocksToQuit, Evacuates, LeaseKeepsItsModel,
               EnteredThroughGate, QuitterStops
        <2> QED
            BY <2>1, <2>2, <2>3, <2>4, <2>5, <2>6, <2>7 DEF Safe
    <1>9. ASSUME NEW p \in Pids, ProcessFails(p) \/ Grows(p) PROVE Safe'
        <2>1. UNCHANGED <<pc, route, want, bound, permits, mutex, resident, child,
                          inFlight, shutdown>>
            BY <1>9 DEF ProcessFails, Grows
        <2> QED
            BY <1>0, <2>1 DEF Safe, AcquirersAreCallers, HoldersHaveMutex,
               GateExclusive, EnteredThroughGate, MutexContents, QuitterStops,
               LeaseKeepsItsModel, Acquiring
    <1>10. CASE IdleTimeout
        <2>1. UNCHANGED <<pc, route, want, bound, permits, mutex, resident, child,
                          inFlight, shutdown>>
            BY <1>10 DEF IdleTimeout
        <2> QED
            BY <1>0, <2>1 DEF Safe, AcquirersAreCallers, HoldersHaveMutex,
               GateExclusive, EnteredThroughGate, MutexContents, QuitterStops,
               LeaseKeepsItsModel, Acquiring
    <1>11. ASSUME NEW b \in BOOLEAN, SetBackfillActive(b) PROVE Safe'
        <2>1. UNCHANGED <<pc, route, want, bound, permits, mutex, resident, child,
                          inFlight, shutdown>>
            BY <1>11 DEF SetBackfillActive
        <2> QED
            BY <1>0, <2>1 DEF Safe, AcquirersAreCallers, HoldersHaveMutex,
               GateExclusive, EnteredThroughGate, MutexContents, QuitterStops,
               LeaseKeepsItsModel, Acquiring
    <1>12. CASE Relaunch
        <2>1. AcquirersAreCallers'
            BY <1>0, <1>1, <1>12 DEF Relaunch, AcquirersAreCallers, Acquiring,
               AcquireRoutes
        <2>2. HoldersHaveMutex'
            BY <1>0, <1>1, <1>12 DEF Relaunch, HoldersHaveMutex, Locked
        <2>3. GateExclusive'
            BY <1>0, <1>1, <1>12 DEF Relaunch, GateExclusive,
               EnteredThroughGate
        <2>4. EnteredThroughGate'
            BY <1>0, <1>1, <1>12 DEF Relaunch, EnteredThroughGate
        <2>5. MutexContents'
            BY <1>0, <1>1, <1>12 DEF Relaunch, MutexContents, HoldersHaveMutex,
               Locked
        <2>6. QuitterStops'
            BY <1>0, <1>1, <1>12 DEF Relaunch, QuitterStops
        <2>7. LeaseKeepsItsModel'
            BY <1>0, <1>1, <1>12 DEF Relaunch, LeaseKeepsItsModel,
               EnteredThroughGate, QuitterStops
        <2> QED
            BY <2>1, <2>2, <2>3, <2>4, <2>5, <2>6, <2>7 DEF Safe
    <1> QED
        BY <1>2, <1>3, <1>4, <1>5, <1>6, <1>7, <1>8, <1>9, <1>10, <1>11, <1>12
           DEF Next

\* SInv holds initially ...
LEMMA SInvInit == Init => SInv
PROOF
    <1> SUFFICES ASSUME Init PROVE SInv
        OBVIOUS
    <1> USE TasksAssumption, BoundsAssumption DEF Init
    <1>1. TypeOK
        <2>1. /\ pc \in [Tasks -> Points] /\ route \in [Tasks -> Routes]
              /\ want \in [Callers -> Models \cup {NoModel}]
              /\ bound \in [Callers -> Pids \cup {0}]
              /\ permits \in [Tasks -> {"none", "one", "all"}]
            BY DEF Points, Routes
        <2>2. /\ gateQ \in Seq(Tasks) /\ mutex \in Tasks \cup {"none"}
              /\ resident = Nobody /\ child = Nobody
              /\ tries \in 0..(Attempts - 1) /\ inFlight \subseteq Callers
            OBVIOUS
        <2>3. /\ expired \in BOOLEAN /\ pinned \in BOOLEAN
              /\ pinSpec \in Models \cup {NoModel}
              /\ backfill \in BOOLEAN /\ shutdown \in BOOLEAN
            OBVIOUS
        <2>4. /\ shown \in Broadcasts
              /\ os \in [Pids -> {"gone", "loading", "up", "sick", "stuck"}]
              /\ fat \subseteq Pids /\ pidfile \in Pids \cup {0}
              /\ calls \in 0..MaxCalls /\ faults \in 0..MaxFaults
            BY StatusTyped DEF Statuses
        <2> QED
            BY <2>1, <2>2, <2>3, <2>4 DEF TypeOK
    <1>2. Safe
        BY DEF Safe, AcquirersAreCallers, Acquiring, HoldersHaveMutex, Locked,
           GateExclusive, EnteredThroughGate, MutexContents, QuitterStops,
           LeaseKeepsItsModel, Tasks, Callers
    <1> QED
        BY <1>1, <1>2 DEF SInv

\* ... and after every step.
LEMMA SInvNext == SInv /\ [Next]_vars => SInv'
PROOF
    <1> SUFFICES ASSUME SInv, [Next]_vars PROVE SInv'
        OBVIOUS
    <1>1. TypeOK /\ AcquirersAreCallers
        BY DEF SInv, Safe
    <1>2. CASE \E t \in Tasks : Steps(t)
        BY <1>1, <1>2, TypeStep, SafeStep DEF SInv
    <1>3. CASE ~\E t \in Tasks : Steps(t)
        BY <1>1, <1>3, TypeOther, SafeOther DEF SInv
    <1> QED
        BY <1>2, <1>3

\* The invariant of the supervisor.
LEMMA SInvAlways == Spec => []SInv
PROOF
    BY SInvInit, SInvNext, PTL DEF Spec

\* supervisor.rs keeps every variable within its type, whatever the numbers of
\* requests, loads, models and permits.
THEOREM SupervisorTypes == Spec => []TypeOK
PROOF
    <1>1. SInv => TypeOK
        BY DEF SInv
    <1> QED
        BY <1>1, SInvAlways, PTL

\* The process behind a live lease is never replaced under it, by any mixture of
\* switches, recycles, crash recoveries, unloads, evictions and relaunches.
THEOREM LeasesAreKept == Spec => []LeaseKeepsItsModel
PROOF
    <1>1. SInv => LeaseKeepsItsModel
        BY DEF SInv, Safe
    <1> QED
        BY <1>1, SInvAlways, PTL

\* Whoever reads or replaces the process across an await holds the mutex alone,
\* and all the permits of the gate are with one task or spread over leases.
THEOREM SupervisorExclusion == Spec => [](HoldersHaveMutex /\ GateExclusive)
PROOF
    <1>1. SInv => HoldersHaveMutex /\ GateExclusive
        BY DEF SInv, Safe
    <1> QED
        BY <1>1, SInvAlways, PTL

----------------------------------------------------------------------------
(* The process.  What runs and is not stuck is the resident process or the   *)
(* one the mutex holder is killing or starting, never both; its record is    *)
(* written before anybody else can look, and so is its status.               *)

Running == {p \in Pids : os[p] \in {"loading", "up", "sick"}}

RunningIsKnown == \A p \in Running : p \in {resident.pid, child.pid}

ChildIsHeld ==
    child # Nobody =>
        /\ resident = Nobody
        /\ mutex # "none" /\ pc[mutex] \in {"kill", "health"}

Recorded ==
    /\ resident # Nobody => pidfile = resident.pid
    /\ \A t \in Tasks : pc[t] = "health" => pidfile = child.pid

Shown ==
    /\ resident # Nobody => shown = Status("ready", resident.spec)
    /\ mutex = "none" /\ resident = Nobody /\ shown.told => shown.state # "ready"

PInv == RunningIsKnown /\ ChildIsHeld /\ Recorded /\ Shown

\* What the actions below may cite of the types and of Safe.
LEMMA ProcessFacts ==
    ASSUME SInv
    PROVE  /\ pc \in [Tasks -> Points] /\ want \in [Callers -> Models \cup {NoModel}]
           /\ os \in [Pids -> {"gone", "loading", "up", "sick", "stuck"}]
           /\ resident \in Processes \cup {Nobody} /\ child \in Processes \cup {Nobody}
           /\ \A q \in Processes : q.pid \in Pids /\ q.spec \in Models /\ q # Nobody
           /\ Nobody \notin Processes /\ Nobody.pid = 0 /\ 0 \notin Pids
           /\ "none" \notin Tasks /\ mutex \in Tasks \cup {"none"}
           /\ \A t \in Tasks : pc[t] \in Locked => mutex = t
PROOF
    <1>1. 0 \notin Pids
        BY BoundsAssumption DEF Pids
    <1>2. \A q \in Processes : q.pid \in Pids /\ q.spec \in Models
        BY DEF Processes
    <1>3. Nobody.pid = 0
        BY DEF Nobody
    <1> QED
        BY <1>1, <1>2, <1>3, TasksAssumption DEF SInv, TypeOK, Safe, HoldersHaveMutex

\* A step that leaves the process, its record and its status alone.
LEMMA ProcessUntouched ==
    ASSUME SInv, PInv, NEW t \in Tasks,
           UNCHANGED <<resident, child, shown, os, pidfile>>,
           \A u \in Tasks \ {t} : pc'[u] = pc[u],
           pc[t] \notin {"kill", "health"}, pc'[t] # "health",
           child = Nobody \/ mutex' = mutex,
           mutex' = "none" => mutex = "none" \/ resident # Nobody
    PROVE  PInv'
PROOF
    <1>1. RunningIsKnown'
        BY DEF PInv, RunningIsKnown, Running
    <1>2. ChildIsHeld'
        BY ProcessFacts DEF PInv, ChildIsHeld
    <1>3. Recorded'
        BY DEF PInv, Recorded
    <1>4. Shown'
        BY DEF PInv, Shown
    <1> QED
        BY <1>1, <1>2, <1>3, <1>4 DEF PInv

\* The resident process is taken out of the mutex, to be killed.
LEMMA ProcessEvacuated ==
    ASSUME SInv, PInv, NEW t \in Tasks, Evacuates(t), child = Nobody
    PROVE  PInv'
PROOF
    <1>1. /\ mutex' = t /\ child' = resident /\ resident' = Nobody
          /\ UNCHANGED <<os, pidfile>>
          /\ pc'[t] = "kill" /\ \A u \in Tasks \ {t} : pc'[u] = pc[u]
        BY ProcessFacts DEF Evacuates, Goes, osVars
    <1>2. \A u \in Tasks : pc[u] # "health"
        BY ProcessFacts DEF SInv, Safe, MutexContents
    <1>3. RunningIsKnown'
        BY <1>1 DEF PInv, RunningIsKnown, Running
    <1>4. ChildIsHeld'
        BY <1>1, ProcessFacts DEF ChildIsHeld
    <1>5. Recorded'
        BY <1>1, <1>2 DEF Recorded
    <1>6. Shown'
        BY <1>1, ProcessFacts DEF Shown
    <1> QED
        BY <1>3, <1>4, <1>5, <1>6 DEF PInv

\* What a task does under the mutex to the process it kills or starts.
LEMMA ProcessHandled ==
    ASSUME SInv, PInv, NEW t \in Tasks,
           Kills(t) \/ Launches(t) \/ LaunchFails(t) \/ BecomesHealthy(t) \/ StartupFails(t)
    PROVE  PInv'
PROOF
    <1>0. /\ pc[t] \in {"kill", "spawn", "health"} /\ mutex = t /\ t # "none"
          /\ resident = Nobody /\ pc \in [Tasks -> Points]
          /\ os \in [Pids -> {"gone", "loading", "up", "sick", "stuck"}]
          /\ \A u \in Tasks \ {t} : pc[u] \notin Locked
          /\ \A p \in Pids : os[p] \in {"loading", "up", "sick"} => p = child.pid
        <2>1. pc[t] \in {"kill", "spawn", "health"}
            BY DEF Kills, Launches, LaunchFails, BecomesHealthy, StartupFails
        <2>2. mutex = t /\ resident = Nobody
            BY <2>1, ProcessFacts DEF Locked, SInv, Safe, MutexContents
        <2> QED
            BY <2>1, <2>2, ProcessFacts DEF PInv, RunningIsKnown, Running
    <1>1. CASE Kills(t)
        <2>1. /\ child' = Nobody /\ resident' = Nobody
              /\ os' = [os EXCEPT ![child.pid] = "gone"] \/ os' = [os EXCEPT ![child.pid] = "stuck"]
            BY <1>0, <1>1 DEF Kills
        <2>2. \A p \in Pids : os'[p] \notin {"loading", "up", "sick"}
            BY <1>0, <2>1
        <2>3. \/ /\ mutex' = t /\ \A u \in Tasks : pc'[u] # "health"
              \/ /\ \A u \in Tasks : pc'[u] # "health"
                 /\ shown'.state \in {"stopped", "evicted"}
            BY <1>0, <1>1 DEF Kills, AfterKill, Goes, Status, Locked
        <2> QED
            BY <1>0, <2>1, <2>2, <2>3
            DEF PInv, RunningIsKnown, Running, ChildIsHeld, Recorded, Shown
    <1>2. CASE Launches(t)
        <2>1. PICK p \in Pids :
                /\ os' = [os EXCEPT ![p] = "loading"] /\ pidfile' = p
                /\ child' = [pid |-> p, spec |-> want[t]]
            BY <1>2 DEF Launches
        <2>2. child = Nobody
            BY <1>0, <1>2 DEF PInv, ChildIsHeld, Launches
        <2>3. /\ pc'[t] = "health" /\ \A u \in Tasks \ {t} : pc'[u] = pc[u]
              /\ mutex' = t /\ resident' = Nobody
            BY <1>0, <1>2 DEF Launches, Goes
        <2>4. child'.pid = p
            BY <2>1
        <2>5. RunningIsKnown'
            BY <1>0, <2>1, <2>2, <2>4, ProcessFacts DEF RunningIsKnown, Running
        <2> QED
            BY <1>0, <2>1, <2>3, <2>4, <2>5 DEF PInv, ChildIsHeld, Recorded, Shown, Locked
    <1>3. CASE LaunchFails(t)
        <2>1. /\ child = Nobody /\ child' = Nobody /\ resident' = Nobody
            BY <1>0, <1>3 DEF PInv, ChildIsHeld, LaunchFails
        <2>2. \A p \in Pids : os'[p] \notin {"loading", "up", "sick"}
            BY <1>0, <1>3, <2>1, ProcessFacts DEF LaunchFails
        <2>3. \A u \in Tasks : pc'[u] # "health"
            BY <1>0, <1>3 DEF LaunchFails, SpawnFails, Goes, Locked
        <2>4. shown'.told => shown'.state = "starting"
            <3>1. shown \in Broadcasts
                BY DEF SInv, TypeOK
            <3>2. DOMAIN shown = {"state", "model", "told"}
                BY <3>1 DEF Broadcasts
            <3> QED
                BY <1>3, <3>1, <3>2 DEF LaunchFails, Status, Broadcasts
        <2> QED
            BY <1>0, <2>1, <2>2, <2>3, <2>4
            DEF PInv, RunningIsKnown, Running, ChildIsHeld, Recorded, Shown
    <1>4. CASE BecomesHealthy(t)
        <2>1. /\ pc[t] = "health" /\ os' = [os EXCEPT ![child.pid] = "up"]
              /\ shown' = Status("ready", child.spec)
              /\ resident' = child /\ child' = Nobody /\ pidfile' = pidfile
              /\ child.pid \in Pids
            BY <1>4, ProcessFacts DEF BecomesHealthy, SInv, Safe, MutexContents
        <2>2. pidfile = child.pid
            BY <2>1 DEF PInv, Recorded
        <2>3. \A u \in Tasks : pc'[u] # "health"
            BY <1>0, <1>4 DEF BecomesHealthy, Leases, Goes, Locked
        <2>4. RunningIsKnown'
            BY <1>0, <2>1 DEF RunningIsKnown, Running
        <2>5. resident' # Nobody
            BY <2>1, ProcessFacts
        <2> QED
            BY <2>1, <2>2, <2>3, <2>4, <2>5 DEF PInv, ChildIsHeld, Recorded, Shown, Status
    <1>5. CASE StartupFails(t)
        <2>1. /\ child' = Nobody /\ resident' = Nobody /\ shown'.state = "crashed"
              /\ \/ os' = os /\ os[child.pid] = "gone"
                 \/ os' = [os EXCEPT ![child.pid] = "gone"]
                 \/ os' = [os EXCEPT ![child.pid] = "stuck"]
            BY <1>0, <1>5 DEF StartupFails, Status
        <2>2. \A p \in Pids : os'[p] \notin {"loading", "up", "sick"}
            BY <1>0, <2>1
        <2>3. \A u \in Tasks : pc'[u] # "health"
            BY <1>0, <1>5 DEF StartupFails, SpawnFails, Goes, Locked
        <2> QED
            BY <2>1, <2>2, <2>3
            DEF PInv, RunningIsKnown, Running, ChildIsHeld, Recorded, Shown
    <1> QED
        BY <1>1, <1>2, <1>3, <1>4, <1>5

\* A task's step keeps track of every process: resident, in the hands of the mutex
\* holder, or stuck.
LEMMA ProcessStep ==
    ASSUME SInv, PInv, NEW t \in Tasks, Steps(t)
    PROVE  PInv'
PROOF
    <1>0. \A u \in Tasks \ {t} : pc'[u] = pc[u]
        BY Frame DEF SInv
    <1>1. mutex = "none" => child = Nobody
        BY DEF PInv, ChildIsHeld
    <1>2. pc[t] \in {"check", "recheck"} => mutex = t /\ child = Nobody /\ resident # Nobody
        BY ProcessFacts DEF Locked, PInv, ChildIsHeld, SInv, Safe, MutexContents
    <1>3. ASSUME Evacuates(t), mutex = "none" \/ pc[t] = "recheck" PROVE PInv'
        BY <1>1, <1>2, <1>3, ProcessEvacuated
    <1>4. ASSUME Restarts(t), UNCHANGED <<resident, child, shown, os, pidfile>>,
                 pc[t] \in {"lock", "recheck"}, mutex = "none" \/ pc[t] = "recheck"
          PROVE  PInv'
        <2>1. pc'[t] = "ceiling"
            BY <1>4, ProcessFacts DEF Restarts, Goes
        <2> QED
            BY <1>0, <1>1, <1>2, <1>4, <2>1, ProcessUntouched
    <1> USE DEF Goes, GoesFor, osVars, stateVars
    <1>5. CASE Asks(t) \/ GateGrants(t) \/ ProbesCeiling(t) \/ ProbesSwitch(t)
               \/ DropsLease(t) \/ DropsPermit(t)
        <2>1. /\ UNCHANGED <<resident, child, shown, os, pidfile, mutex>>
              /\ pc[t] \notin {"kill", "health"}
            BY <1>5 DEF Asks, GateGrants, ProbesCeiling, ProbesSwitch, DropsLease, DropsPermit
        <2>2. pc'[t] # "health"
            BY <1>5, ProcessFacts
            DEF Asks, GateGrants, ProbesCeiling, ProbesSwitch, DropsLease, DropsPermit
        <2> QED
            BY <1>0, <2>1, <2>2, ProcessUntouched
    <1>6. CASE LocksToRecycle(t) \/ LocksToSwitch(t) \/ LocksToRecover(t) \/ Rechecks(t)
        <2>1. \/ Evacuates(t) /\ (mutex = "none" \/ pc[t] = "recheck")
              \/ /\ Restarts(t) /\ pc[t] \in {"lock", "recheck"}
                 /\ mutex = "none" \/ pc[t] = "recheck"
              \/ /\ pc[t] = "lock" /\ pc' = [pc EXCEPT ![t] = "recheck"] /\ mutex = "none"
                 /\ mutex' = t /\ UNCHANGED <<resident, child, shown, os, pidfile>>
            BY <1>6 DEF LocksToRecycle, LocksToSwitch, LocksToRecover, Rechecks
        <2>2. CASE Evacuates(t) /\ (mutex = "none" \/ pc[t] = "recheck")
            BY <1>3, <2>2
        <2>3. CASE /\ Restarts(t) /\ pc[t] \in {"lock", "recheck"}
                   /\ mutex = "none" \/ pc[t] = "recheck"
            BY <1>4, <2>3 DEF Restarts
        <2>4. CASE /\ pc[t] = "lock" /\ pc' = [pc EXCEPT ![t] = "recheck"] /\ mutex = "none"
                   /\ mutex' = t /\ UNCHANGED <<resident, child, shown, os, pidfile>>
            <3>1. pc'[t] # "health"
                BY <2>4, ProcessFacts
            <3> QED
                BY <1>0, <1>1, <2>4, <3>1, ProcessFacts, ProcessUntouched
        <2> QED
            BY <2>1, <2>2, <2>3, <2>4
    <1>7. CASE LocksToEnter(t)
        <2>1. CASE Restarts(t)
            BY <1>4, <1>7, <2>1 DEF LocksToEnter, Restarts
        <2>2. CASE ~Restarts(t)
            <3>1. /\ UNCHANGED <<resident, child, shown, os, pidfile>> /\ pc[t] = "lock"
                  /\ mutex = "none" /\ mutex' = t
                BY <1>7, <2>2 DEF LocksToEnter
            <3>2. pc'[t] \in {"spawn", "check"}
                BY <1>7, <2>2, ProcessFacts DEF LocksToEnter
            <3> QED
                BY <1>0, <1>1, <3>1, <3>2, ProcessFacts, ProcessUntouched
        <2> QED
            BY <2>1, <2>2
    <1>8. CASE FindsHealthy(t) \/ FindsSick(t)
        <2>1. UNCHANGED <<resident, child, shown, os, pidfile>> /\ pc[t] = "check" /\ mutex' = "none"
            BY <1>8 DEF FindsHealthy, FindsSick, Leases
        <2>2. pc'[t] \in {"leased", "ask"}
            BY <1>8, ProcessFacts DEF FindsHealthy, FindsSick, Leases
        <2> QED
            BY <1>0, <1>2, <2>1, <2>2, ProcessUntouched
    <1>9. CASE LocksToUnload(t)
        <2>1. CASE Evacuates(t)
            BY <1>3, <1>9, <2>1 DEF LocksToUnload
        <2>2. CASE ~Evacuates(t)
            <3>1. UNCHANGED <<resident, child, shown, os, pidfile, mutex>> /\ pc[t] = "lock"
                BY <1>9, <2>2 DEF LocksToUnload
            <3>2. pc'[t] = "idle"
                BY <1>9, <2>2, ProcessFacts DEF LocksToUnload
            <3> QED
                BY <1>0, <3>1, <3>2, ProcessUntouched
        <2> QED
            BY <2>1, <2>2
    <1>10. CASE Kills(t) \/ Launches(t) \/ LaunchFails(t) \/ BecomesHealthy(t) \/ StartupFails(t)
        BY <1>10, ProcessHandled
    <1> QED
        BY <1>5, <1>6, <1>7, <1>8, <1>9, <1>10 DEF Steps

\* So does whatever else happens: crashes, time, a relaunch.
LEMMA ProcessOther ==
    ASSUME SInv, PInv, UNCHANGED vars \/ Next, ~\E t \in Tasks : Steps(t)
    PROVE  PInv'
PROOF
    <1> USE DEF Goes, GoesFor, taskVars, stateVars, osVars
    <1>0. Evictor \in Tasks /\ Quitter \in Tasks /\ Callers \subseteq Tasks
          /\ Unloads \subseteq Tasks
        BY DEF Tasks
    <1>1. CASE UNCHANGED <<pc, mutex, resident, child, shown, os, pidfile>>
        BY <1>1 DEF PInv, RunningIsKnown, Running, ChildIsHeld, Recorded, Shown
    <1>2. ASSUME NEW t \in Tasks, pc[t] \in {"idle", "lock"},
                 NEW point \in {"idle", "ceiling", "ask", "lock"}, pc' = [pc EXCEPT ![t] = point],
                 UNCHANGED <<mutex, resident, child, shown, os, pidfile>>
          PROVE  PInv'
        <2>1. pc'[t] # "health" /\ \A u \in Tasks \ {t} : pc'[u] = pc[u]
            BY <1>2, ProcessFacts
        <2> QED
            BY <1>2, <2>1, ProcessUntouched
    <1>3. ASSUME NEW t \in Callers, NEW m \in Models, Call(t, m) PROVE PInv'
        BY <1>0, <1>2, <1>3 DEF Call
    <1>4. ASSUME NEW t \in Unloads, UnloadCall(t) PROVE PInv'
        BY <1>0, <1>2, <1>4 DEF UnloadCall
    <1>5. CASE EvictorTicks
        BY <1>0, <1>2, <1>5 DEF EvictorTicks
    <1>6. CASE ShutdownCall
        BY <1>0, <1>2, <1>6 DEF ShutdownCall
    <1>7. mutex = "none" => child = Nobody
        BY DEF PInv, ChildIsHeld
    <1>8. CASE LocksToEvict
        <2>1. CASE Evacuates(Evictor)
            BY <1>0, <1>7, <1>8, <2>1, ProcessEvacuated DEF LocksToEvict
        <2>2. CASE ~Evacuates(Evictor)
            BY <1>0, <1>2, <1>8, <2>2 DEF LocksToEvict
        <2> QED
            BY <2>1, <2>2
    <1>9. CASE LocksToQuit
        <2>1. CASE Evacuates(Quitter)
            BY <1>0, <1>7, <1>9, <2>1, ProcessEvacuated DEF LocksToQuit
        <2>2. CASE ~Evacuates(Quitter)
            <3>1. /\ UNCHANGED <<mutex, resident, child, os, pidfile>> /\ resident = Nobody
                  /\ shown'.state = "stopped" /\ child = Nobody
                BY <1>7, <1>9, <2>2 DEF LocksToQuit, Status
            <3>2. \A u \in Tasks : pc'[u] = "health" => pc[u] = "health"
                BY <1>0, <1>9, <2>2, ProcessFacts DEF LocksToQuit
            <3> QED
                BY <3>1, <3>2 DEF PInv, RunningIsKnown, Running, ChildIsHeld, Recorded, Shown
        <2> QED
            BY <2>1, <2>2
    <1>10. ASSUME NEW p \in Pids, ProcessFails(p) PROVE PInv'
        <2>1. /\ UNCHANGED <<pc, mutex, resident, child, shown, pidfile>>
              /\ \A q \in Pids : os'[q] \in {"loading", "up", "sick"} =>
                    os[q] \in {"loading", "up", "sick"}
            BY <1>10, ProcessFacts DEF ProcessFails
        <2> QED
            BY <2>1 DEF PInv, RunningIsKnown, Running, ChildIsHeld, Recorded, Shown
    <1>11. ASSUME NEW p \in Pids, Grows(p) PROVE PInv'
        BY <1>1, <1>11 DEF Grows
    <1>12. CASE IdleTimeout
        BY <1>1, <1>12 DEF IdleTimeout
    <1>13. ASSUME NEW b \in BOOLEAN, SetBackfillActive(b) PROVE PInv'
        BY <1>1, <1>13 DEF SetBackfillActive
    <1>14. CASE Relaunch
        <2>1. /\ resident' = Nobody /\ child' = Nobody /\ shown'.state = "stopped"
              /\ \A u \in Tasks : pc'[u] = "idle"
            BY <1>14 DEF Relaunch, Status
        <2>2. \A p \in Pids : os'[p] \notin {"loading", "up", "sick"}
            BY <1>14 DEF Relaunch, Reaped
        <2> QED
            BY <2>1, <2>2 DEF PInv, RunningIsKnown, Running, ChildIsHeld, Recorded, Shown
    <1>15. CASE UNCHANGED vars
        BY <1>1, <1>15 DEF vars
    <1> QED
        BY <1>3, <1>4, <1>5, <1>6, <1>8, <1>9, <1>10, <1>11, <1>12, <1>13, <1>14, <1>15
           DEF Next

\* Both invariants always hold.
LEMMA ProcessAlways == Spec => [](SInv /\ PInv)
PROOF
    <1>1. Init => PInv
        <2> SUFFICES ASSUME Init PROVE PInv
            OBVIOUS
        <2>1. /\ resident = Nobody /\ child = Nobody /\ shown.state = "stopped"
              /\ \A u \in Tasks : pc[u] = "idle"
              /\ \A p \in Pids : os[p] = "gone"
            BY DEF Init, Status
        <2> QED
            BY <2>1 DEF PInv, RunningIsKnown, Running, ChildIsHeld, Recorded, Shown
    <1>2. SInv /\ PInv /\ [Next]_vars => PInv'
        BY ProcessStep, ProcessOther
    <1> QED
        BY <1>1, <1>2, SInvInit, SInvNext, PTL DEF Spec

\* A model process is launched only once the one before it has ended or outlived
\* its kill, whichever of a switch, a recycle, a recovery, an unload, the
\* evictor, shutdown and the next launch comes between (supervisor.rs).
THEOREM OneProcessAtATime == Spec => []OneProcess
PROOF
    <1>1. ASSUME SInv, PInv PROVE OneProcess
        <2> DEFINE q == IF resident = Nobody THEN child.pid ELSE resident.pid
        <2>1. Running \in SUBSET {q}
            <3>1. child = Nobody \/ resident = Nobody
                BY <1>1 DEF PInv, ChildIsHeld
            <3> QED
                BY <1>1, <3>1, ProcessFacts DEF PInv, RunningIsKnown, Running
        <2> HIDE DEF q
        <2>2. IsFiniteSet({q}) /\ Cardinality({q}) = 1
            BY FS_Singleton
        <2>3. IsFiniteSet(Running) /\ Cardinality(Running) <= 1
            BY <2>1, <2>2, FS_Subset
        <2> QED
            BY <2>3 DEF OneProcess, Running
    <1> QED
        BY <1>1, ProcessAlways, PTL

\* Whenever nobody is in the middle of replacing it, the record on disk names
\* the resident process: a crash leaves nothing the next launch cannot reap.
THEOREM ResidentIsRecorded == Spec => []PidfileNamesResident
PROOF
    <1>1. PInv => PidfileNamesResident
        BY DEF PInv, Recorded, PidfileNamesResident
    <1> QED
        BY <1>1, ProcessAlways, PTL

\* Between operations the panel says Ready, with the model's name, exactly while
\* a process is resident; only a launch that found no free port may have left it
\* saying so, since free_port fails before anything is reported.
THEOREM PanelTellsTheTruth == Spec => []PanelTruthful
PROOF
    <1>1. PInv => PanelTruthful
        BY DEF PInv, Shown, PanelTruthful
    <1> QED
        BY <1>1, ProcessAlways, PTL
=============================================================================
