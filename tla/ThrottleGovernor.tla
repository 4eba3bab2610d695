-------------------------- MODULE ThrottleGovernor --------------------------
(***************************************************************************)
(* The enrichment throttle: the level machine and the governor loop of     *)
(* crates/kernel/src/throttle.rs, and the switch that starts and stops it  *)
(* with the settings (crates/kernel/src/lib.rs, reconfigure_throttle).     *)
(* A pressure sample is hot (over an enter threshold), cool (under every   *)
(* exit threshold) or between; edited thresholds change nothing else.      *)
(***************************************************************************)
EXTENDS Integers

CONSTANTS
    Savers,           \* concurrent set_settings calls, and the application's startup
    EnterAfter,       \* throttle_enter_after_ms, in sample intervals
    ExitAfter,        \* throttle_exit_after_ms
    ThrottleHorizon,  \* bound: the clock
    MaxThrottleSaves  \* bound: saves of throttle.enabled

ASSUME ThrottleAssumption ==
    /\ EnterAfter \in Nat \ {0} /\ ExitAfter \in Nat \ {0}
    /\ ThrottleHorizon \in Nat /\ MaxThrottleSaves \in Nat

VARIABLES
    throttleEnabled,  \* throttle.enabled, as stored
    probe,            \* the system-pressure probe was injected
    saver,            \* Savers -> where its reconfigure_throttle is, and what it read
    governor,         \* the governor: off, waiting, woken (past its wait), told to stop
    machine,          \* ThrottleMachine: level, over_since, under_since
    throttleLevel,    \* the shared level the worker pool reads
    throttleClock,    \* sample intervals
    throttleSaves,    \* saves so far
    overlapped,       \* history: the latest save began while another was under way
    misread,          \* history: the latest read of an enabled setting failed
    mixed,            \* history: the latest sample that was not hot, and not cool
    stepped           \* history: when the level last changed

throttleVars == <<throttleEnabled, probe, saver, governor, machine, throttleLevel,
                  throttleClock, throttleSaves, overlapped, misread, mixed, stepped>>
switchVars == <<throttleEnabled, probe, throttleSaves, overlapped, misread>>
governorVars == <<governor, machine, throttleLevel, throttleClock, mixed, stepped>>

Unset == -1
Ready == [pc |-> "idle", enabled |-> FALSE]
NewMachine == [level |-> 0, over |-> Unset, under |-> Unset]

Since(t, now) == IF t = Unset THEN now ELSE t

\* Mutant of Observe: a sample in the hysteresis band keeps the dwells.
ObserveBandKeeps(sample, now) ==
    LET over == Since(machine.over, now)
        under == Since(machine.under, now)
    IN CASE sample = "hot" ->
              IF now - over >= EnterAfter /\ machine.level # 2
              THEN [level |-> machine.level + 1, over |-> now, under |-> Unset]
              ELSE [level |-> machine.level, over |-> over, under |-> Unset]
         [] sample = "cool" ->
              IF now - under >= ExitAfter /\ machine.level # 0
              THEN [level |-> machine.level - 1, over |-> Unset, under |-> now]
              ELSE [level |-> machine.level, over |-> Unset, under |-> under]
         [] OTHER -> machine

\* ThrottleMachine::observe
Observe(sample, now) ==
    LET over == Since(machine.over, now)
        under == Since(machine.under, now)
    IN CASE sample = "hot" ->
              IF now - over >= EnterAfter /\ machine.level # 2
              THEN [level |-> machine.level + 1, over |-> now, under |-> Unset]
              ELSE [level |-> machine.level, over |-> over, under |-> Unset]
         [] sample = "cool" ->
              IF now - under >= ExitAfter /\ machine.level # 0
              THEN [level |-> machine.level - 1, over |-> Unset, under |-> now]
              ELSE [level |-> machine.level, over |-> Unset, under |-> under]
         [] OTHER -> [level |-> machine.level, over |-> Unset, under |-> Unset]

-----------------------------------------------------------------------------
(* governor_loop *)

\* The wait ends with its interval; a stop is seen first.
Wakes ==
    /\ governor = "waiting"
    /\ throttleClock < ThrottleHorizon
    /\ throttleClock' = throttleClock + 1
    /\ governor' = "woken"
    /\ UNCHANGED <<switchVars, saver, machine, throttleLevel, mixed, stepped>>

\* The sample is observed and the level published.
Samples(sample) ==
    /\ governor \in {"woken", "wokenstop"}
    /\ machine' = Observe(sample, throttleClock)
    /\ throttleLevel' = machine'.level
    /\ governor' = IF governor = "woken" THEN "waiting" ELSE "stop"
    /\ mixed' = [hot |-> IF sample = "hot" THEN mixed.hot ELSE throttleClock,
                 cool |-> IF sample = "cool" THEN mixed.cool ELSE throttleClock]
    /\ stepped' = IF machine'.level # machine.level THEN throttleClock ELSE stepped
    /\ UNCHANGED <<switchVars, saver, throttleClock>>

-----------------------------------------------------------------------------
(* set_settings and the startup, as far as the throttle goes *)

\* A call of reconfigure_throttle begins.
ReconfigureBegins(s) ==
    /\ saver[s] = Ready
    /\ saver' = [saver EXCEPT ![s].pc = "load"]
    /\ overlapped' = \E b \in Savers \ {s} : saver[b] # Ready

\* The setting is stored.
Save(s, on) ==
    /\ ReconfigureBegins(s)
    /\ throttleSaves < MaxThrottleSaves
    /\ throttleSaves' = throttleSaves + 1
    /\ throttleEnabled' = on
    /\ UNCHANGED <<probe, misread, governorVars>>

\* set_pressure_probe, once.
Startup(s) ==
    /\ ReconfigureBegins(s)
    /\ ~probe
    /\ probe' = TRUE
    /\ UNCHANGED <<throttleEnabled, throttleSaves, misread, governorVars>>

\* reconfigure_throttle reads the setting before it takes the lock; one that
\* cannot be read has its default, off.
Load(s) ==
    /\ saver[s].pc = "load"
    /\ \E readable \in BOOLEAN :
          /\ saver' = [saver EXCEPT ![s] = [pc |-> "lock", enabled |-> readable /\ throttleEnabled]]
          /\ misread' = (~readable /\ throttleEnabled)
    /\ UNCHANGED <<throttleEnabled, probe, throttleSaves, overlapped, governorVars>>

\* The lock is held to the end of the call.
LockFree == \A s \in Savers : saver[s].pc # "join"

\* Under the lock: start what is off, if there is a probe, stop what is on.
Reconfigure(s) ==
    /\ saver[s].pc = "lock" /\ LockFree
    /\ \/ /\ saver[s].enabled /\ governor = "off" /\ probe
          /\ governor' = "waiting"
          /\ machine' = NewMachine
          /\ saver' = [saver EXCEPT ![s] = Ready]
          /\ mixed' = [hot |-> throttleClock, cool |-> throttleClock]
          /\ stepped' = throttleClock
       \/ /\ ~saver[s].enabled /\ governor # "off"
          /\ governor' = IF governor = "woken" THEN "wokenstop" ELSE "stop"
          /\ saver' = [saver EXCEPT ![s].pc = "join"]
          /\ UNCHANGED <<machine, mixed, stepped>>
       \/ /\ IF saver[s].enabled THEN governor # "off" \/ ~probe ELSE governor = "off"
          /\ saver' = [saver EXCEPT ![s] = Ready]
          /\ UNCHANGED <<governor, machine, mixed, stepped>>
    /\ UNCHANGED <<switchVars, throttleLevel, throttleClock>>

\* Mutant of Joined: the level is reset without waiting for the governor.
JoinedEarly(s) ==
    /\ saver[s].pc = "join"
    /\ throttleLevel' = 0
    /\ governor' = IF governor = "stop" THEN "off" ELSE governor
    /\ saver' = [saver EXCEPT ![s] = Ready]
    /\ UNCHANGED <<switchVars, machine, throttleClock, mixed, stepped>>

\* The governor has returned: reset_throttle_baseline.
Joined(s) ==
    /\ saver[s].pc = "join"
    /\ governor = "stop"
    /\ governor' = "off"
    /\ throttleLevel' = 0
    /\ saver' = [saver EXCEPT ![s] = Ready]
    /\ UNCHANGED <<switchVars, machine, throttleClock, mixed, stepped>>

-----------------------------------------------------------------------------
ThrottleInit ==
    /\ throttleEnabled \in BOOLEAN /\ probe = FALSE
    /\ saver = [s \in Savers |-> Ready]
    /\ governor = "off" /\ machine = NewMachine /\ throttleLevel = 0
    /\ throttleClock = 0 /\ throttleSaves = 0
    /\ overlapped = FALSE /\ misread = FALSE
    /\ mixed = [hot |-> 0, cool |-> 0] /\ stepped = 0

ThrottleNext ==
    \/ Wakes
    \/ \E sample \in {"hot", "cool", "between"} : Samples(sample)
    \/ \E s \in Savers : Load(s) \/ Reconfigure(s) \/ Joined(s) \/ Startup(s)
    \/ \E s \in Savers, on \in BOOLEAN : Save(s, on)

ThrottleSpec == ThrottleInit /\ [][ThrottleNext]_throttleVars

-----------------------------------------------------------------------------
ThrottleTypeOK ==
    /\ throttleEnabled \in BOOLEAN /\ probe \in BOOLEAN
    /\ overlapped \in BOOLEAN /\ misread \in BOOLEAN
    /\ saver \in [Savers -> [pc : {"idle", "load", "lock", "join"}, enabled : BOOLEAN]]
    /\ governor \in {"off", "waiting", "woken", "wokenstop", "stop"}
    /\ machine \in [level : 0..2, over : Unset..ThrottleHorizon, under : Unset..ThrottleHorizon]
    /\ throttleLevel \in 0..2
    /\ throttleClock \in 0..ThrottleHorizon /\ throttleSaves \in 0..MaxThrottleSaves
    /\ mixed \in [hot : 0..ThrottleHorizon, cool : 0..ThrottleHorizon]
    /\ stepped \in 0..ThrottleHorizon

\* With no call under way the shared level is zero unless the governor runs: the
\* stop resets the level after the governor's last tick (lib.rs:711).  And the
\* governor runs exactly when throttle.enabled says so, there is a probe and the
\* latest read of the setting did not fail, which switches the throttle off.  Left
\* out is what a call finds that began while another was under way, until the next
\* that does not: the setting is read before the lock is taken (lib.rs:1413), so
\* the older value may be applied last.
ThrottleOffMeansZero ==
    (\A s \in Savers : saver[s] = Ready) =>
        /\ governor = "off" => throttleLevel = 0
        /\ ~overlapped => (governor # "off" <=> throttleEnabled /\ probe /\ ~misread)

\* A level is entered only after a full dwell of nothing but hot samples, and
\* left only after a full dwell of nothing but cool ones, each counted from the
\* level's own beginning: flapping pressure never moves it.
DwellBeforeStep ==
    [][ /\ machine'.level > machine.level =>
             throttleClock - mixed.hot > EnterAfter /\ throttleClock - stepped >= EnterAfter
        /\ machine'.level < machine.level /\ governor # "off" =>
             throttleClock - mixed.cool > ExitAfter /\ throttleClock - stepped >= ExitAfter
      ]_throttleVars
=============================================================================
