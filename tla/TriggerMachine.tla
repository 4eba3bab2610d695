--------------------------- MODULE TriggerMachine ---------------------------
(***************************************************************************)
(* Event-driven capture: the trigger machine of crates/capture/src/        *)
(* trigger.rs, polled by next_event_trigger (crates/capture/src/lib.rs) on *)
(* every poll interval, with both triggers enabled.  Time is counted in    *)
(* poll intervals; the idle time is the time since the last input.         *)
(***************************************************************************)
EXTENDS Integers

CONSTANTS
    Debounce,        \* event_debounce_ms
    MinInterval,     \* event_min_interval_ms
    IdleThresholds,  \* the settings of event_idle_threshold_ms looked at
    TriggerHorizon   \* bound: the clock

\* The rate ceiling is positive (kernel/src/settings.rs:586); the quiet period may
\* be longer than it or shorter.
ASSUME TriggerAssumption ==
    /\ Debounce \in Nat /\ IdleThresholds \subseteq Nat /\ TriggerHorizon \in Nat
    /\ MinInterval \in Nat \ {0}

VARIABLES
    idleThreshold, \* event_idle_threshold_ms
    polledAt,      \* the clock, at the last poll
    lastInput,     \* when the user last touched an input device
    pendingEvent,  \* when the pending foreground change was last renewed, or Never
    lastEmit,      \* last_emit_ms, or Never
    firedIdle,     \* fired_idle
    fired          \* what the last poll returned

triggerVars == <<idleThreshold, polledAt, lastInput, pendingEvent, lastEmit, firedIdle, fired>>

Never == -1

\* A key or a mouse move; it may bring another window to the front.
UserInput ==
    /\ lastInput' = polledAt
    /\ pendingEvent' \in {pendingEvent, polledAt}
    /\ UNCHANGED <<idleThreshold, polledAt, lastEmit, firedIdle, fired>>

\* A window comes to the front by itself: on_input_event.
ForegroundChange ==
    /\ pendingEvent' = polledAt
    /\ UNCHANGED <<idleThreshold, polledAt, lastInput, lastEmit, firedIdle, fired>>

\* try_emit lets a capture through.
MayEmit(now) == lastEmit = Never \/ now - lastEmit >= MinInterval

\* Mutant of Poll: an idle capture does not use up its quiet period.
PollIdleAgain(now) ==
    LET idle == now - lastInput >= idleThreshold /\ MayEmit(now)
        settled == pendingEvent # Never /\ now - pendingEvent >= Debounce /\ MayEmit(now)
    IN /\ fired' = IF idle THEN "Idle" ELSE IF settled THEN "ForegroundChange" ELSE "nothing"
       /\ firedIdle' = FALSE
       /\ lastEmit' = IF idle \/ settled THEN now ELSE lastEmit
       /\ pendingEvent' = IF ~idle /\ settled THEN Never ELSE pendingEvent

\* poll: idle first, once per quiet period; then the pending event, once it has
\* settled.  What the rate ceiling blocks stays armed.
Poll(now) ==
    LET quiet == now - lastInput >= idleThreshold
        idle == quiet /\ ~firedIdle /\ MayEmit(now)
        settled == pendingEvent # Never /\ now - pendingEvent >= Debounce /\ MayEmit(now)
    IN /\ fired' = IF idle THEN "Idle" ELSE IF settled THEN "ForegroundChange" ELSE "nothing"
       /\ firedIdle' = (quiet /\ (firedIdle \/ idle))
       /\ lastEmit' = IF idle \/ settled THEN now ELSE lastEmit
       /\ pendingEvent' = IF ~idle /\ settled THEN Never ELSE pendingEvent

PollTick ==
    /\ polledAt < TriggerHorizon
    /\ polledAt' = polledAt + 1
    /\ Poll(polledAt')
    /\ UNCHANGED <<idleThreshold, lastInput>>

TriggerInit ==
    /\ idleThreshold \in IdleThresholds
    /\ polledAt = 0 /\ lastInput = 0
    /\ pendingEvent = Never /\ lastEmit = Never
    /\ firedIdle = FALSE /\ fired = "nothing"

TriggerNext == UserInput \/ ForegroundChange \/ PollTick

TriggerSpec == TriggerInit /\ [][TriggerNext]_triggerVars

-----------------------------------------------------------------------------
TriggerTypeOK ==
    /\ idleThreshold \in IdleThresholds
    /\ polledAt \in 0..TriggerHorizon /\ lastInput \in 0..TriggerHorizon
    /\ pendingEvent \in (0..TriggerHorizon) \cup {Never}
    /\ lastEmit \in (0..TriggerHorizon) \cup {Never}
    /\ firedIdle \in BOOLEAN /\ fired \in {"nothing", "Idle", "ForegroundChange"}

\* Since when captures for idleness no longer come again and again before the
\* pending event.  If the quiet period is longer than the rate ceiling, one such
\* capture is all that comes; if not, every input that ends a quiet period makes
\* room for another, and only when the user stops is the event next.
Undisturbed ==
    IF idleThreshold > MinInterval \/ lastInput < pendingEvent THEN pendingEvent ELSE lastInput

\* The rate ceiling delays a capture and drops none (trigger.rs:119): a
\* foreground change is captured within its debounce and two intervals, although
\* captures for idleness compete with it; where the quiet period is no longer than
\* the rate ceiling, from the last input on, before which it may wait for ever.
EventServed ==
    pendingEvent # Never =>
        polledAt - Undisturbed < Debounce + 2 * MinInterval \/ polledAt = Undisturbed
=============================================================================
