----------------------------- MODULE CaptureLog -----------------------------
(***************************************************************************)
(* The bounded log of capture observations                                 *)
(* (crates/kernel/src/capture_observations.rs).  Observations carry the    *)
(* wall clock, which may step back between two of them; a process restart  *)
(* begins a new log.                                                       *)
(***************************************************************************)
EXTENDS Integers, Sequences, FiniteSets

CONSTANTS
    TransitionCap,  \* TRANSITION_CAP (1000)
    IntervalCap,    \* INTERVAL_CAP (100)
    LogHorizon,     \* bound: wall-clock times are 0..LogHorizon
    MaxRecords      \* bound: observations made

ASSUME LogAssumption ==
    /\ TransitionCap \in Nat \ {0} /\ IntervalCap \in Nat
    /\ LogHorizon \in Nat /\ MaxRecords \in Nat

VARIABLES
    unavailableBefore,  \* no claim is made about earlier times
    transitions,        \* the retained observations, oldest first
    unknown,            \* unknown_condition: the gap a clock step left, or NoGap
    history             \* every observation ever made, in the order it was made

logVars == <<unavailableBefore, transitions, unknown, history>>

LogTimes == 0..LogHorizon
Observations == {"Started", "CaptureStopped", "WorkerError"}
Transition == [at : LogTimes, observation : Observations]

NoEnd == LogHorizon + 1   \* stands for i64::MAX and for an end not yet observed
NoGap == [from |-> -1, until |-> -1]

Seen(t, o) == [at |-> t, observation |-> o]
Last(s) == s[Len(s)]

-----------------------------------------------------------------------------
(* record *)

Latest == IF transitions = <<>> THEN unavailableBefore ELSE Last(transitions).at

\* Mutant of RecordsBackwards: the gap is not remembered.
RecordsBackwardsWithoutGap(t) ==
    /\ t < Latest
    /\ unavailableBefore' = IF unavailableBefore > Latest THEN unavailableBefore ELSE Latest
    /\ transitions' = <<>>
    /\ UNCHANGED unknown

\* The clock stepped back: what was known is given up, and the condition is
\* unknown until the next observation that is kept.
RecordsBackwards(t) ==
    /\ t < Latest
    /\ unavailableBefore' = IF unavailableBefore > Latest THEN unavailableBefore ELSE Latest
    /\ transitions' = <<>>
    /\ unknown' = [from |-> unavailableBefore', until |-> NoEnd]

\* The same condition reported again keeps its observed start.
RecordsAgain(t, o) ==
    /\ t >= Latest
    /\ transitions # <<>> /\ Last(transitions).observation = o
    /\ UNCHANGED <<unavailableBefore, transitions, unknown>>

\* A new condition; over the cap the oldest transition is forgotten.
RecordsChange(t, o) ==
    /\ t >= Latest
    /\ transitions # <<>> => Last(transitions).observation # o
    /\ LET grown == Append(transitions, Seen(t, o))
       IN IF Len(grown) > TransitionCap
            THEN transitions' = Tail(grown) /\ unavailableBefore' = grown[2].at
            ELSE transitions' = grown /\ UNCHANGED unavailableBefore
    /\ unknown' = IF unknown.until = NoEnd THEN [unknown EXCEPT !.until = t] ELSE unknown

Record(t, o) ==
    /\ Len(history) <= MaxRecords
    /\ RecordsBackwards(t) \/ RecordsAgain(t, o) \/ RecordsChange(t, o)
    /\ history' = Append(history, Seen(t, o))

\* A new process: CaptureObservationBuffer::new.
LogRestart(t) ==
    /\ Len(history) <= MaxRecords
    /\ unavailableBefore' = t
    /\ transitions' = <<Seen(t, "CaptureStopped")>>
    /\ unknown' = NoGap
    /\ history' = Append(history, Seen(t, "CaptureStopped"))

-----------------------------------------------------------------------------
(* snapshot *)

Interrupted(o) == o \in {"CaptureStopped", "WorkerError"}

EndOf(i) == IF i = Len(transitions) THEN NoEnd ELSE transitions[i + 1].at

\* include: the interruptions that meet the half-open window and have a
\* duration.
Meets(i, from, to) ==
    /\ Interrupted(transitions[i].observation)
    /\ transitions[i].at < to
    /\ i < Len(transitions) => EndOf(i) > from /\ EndOf(i) > transitions[i].at

Meeting(from, to) == {i \in 1..Len(transitions) : Meets(i, from, to)}
Reported(from, to) ==
    {i \in Meeting(from, to) : Cardinality({j \in Meeting(from, to) : j < i}) < IntervalCap}

Truncated(from, to) ==
    \/ from < unavailableBefore
    \/ unknown # NoGap /\ from < unknown.until /\ unknown.from < to
    \/ Cardinality(Meeting(from, to)) > IntervalCap

-----------------------------------------------------------------------------
LogInit ==
    \E t \in LogTimes :
        /\ unavailableBefore = t
        /\ transitions = <<Seen(t, "CaptureStopped")>>
        /\ unknown = NoGap
        /\ history = <<Seen(t, "CaptureStopped")>>

LogNext == \E t \in LogTimes : LogRestart(t) \/ \E o \in Observations : Record(t, o)

LogSpec == LogInit /\ [][LogNext]_logVars

-----------------------------------------------------------------------------
(* Properties *)

LogTypeOK ==
    /\ unavailableBefore \in LogTimes
    /\ transitions \in Seq(Transition) /\ Len(transitions) <= TransitionCap
    /\ unknown = NoGap \/ unknown \in [from : LogTimes, until : LogTimes \cup {NoEnd}]
    /\ history \in Seq(Transition)

\* What the complete history says of time t: the last observation made that
\* was stamped t or earlier.
Truth(t) ==
    LET before == {i \in 1..Len(history) : history[i].at <= t}
    IN history[CHOOSE i \in before : \A j \in before : j <= i].observation

\* What the answer for a window says of time t.
Claimed(t, from, to) ==
    LET covering == {i \in Reported(from, to) : transitions[i].at <= t /\ t < EndOf(i)}
    IN IF covering = {} THEN "Started"
       ELSE transitions[CHOOSE i \in covering : TRUE].observation

\* An answer that is not marked truncated says of every instant of its window
\* exactly what the complete history says, although the log forgets old
\* transitions, gives up its history when the clock steps back and is lost with
\* the process (capture_observations.rs:3, "unknown, never silently complete").
LogTruthful ==
    \A from \in LogTimes : \A to \in (from + 1)..NoEnd :
        ~Truncated(from, to) => \A t \in from..(to - 1) : Claimed(t, from, to) = Truth(t)
=============================================================================
