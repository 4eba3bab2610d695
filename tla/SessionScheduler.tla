--------------------------- MODULE SessionScheduler ---------------------------
(***************************************************************************)
(* Sessions: the incremental pass, the freeze pass and the historical      *)
(* backfill of crates/kernel/src/sessions_scheduler.rs over the rows of    *)
(* crates/store/src/sessions.rs.                                           *)
(*                                                                         *)
(* A frame is the instant it was captured at and the application it shows. *)
(* The segmenter (crates/sessions) is reduced to its focus track: frames   *)
(* less than MergeGap apart are one session, named for the application it  *)
(* shows most; density, meetings and AI tracks are left out, and with them *)
(* the exchange artifacts.                                                 *)
(*                                                                         *)
(* A pass reads, plans its writes, and makes them one store call at a      *)
(* time; the calls left are in plan, the next is the first of them.        *)
(***************************************************************************)
EXTENDS Naturals, FiniteSetsExt

CONSTANTS
    Apps,           \* applications
    MergeGap,       \* merge_gap_ms
    MinLength,      \* focus_min_len_ms
    Lookback,       \* freeze_lookback_ms
    ChunkLength,    \* BACKFILL_CHUNK_MS
    FirstPass,      \* the instant of the first pass: what is before it is history
    LastInstant,    \* bound: time
    Captured,       \* bound: Instants -> what may be captured then, an application or nothing
    MaxSessionRows, \* bound: session rows at a time
    MaxUpsets       \* bound: frames deleted, store calls that fail, crashes

ASSUME SessionAssumption ==
    /\ {MergeGap, MinLength, Lookback, ChunkLength, FirstPass, LastInstant, MaxSessionRows}
         \subseteq Nat \ {0}
    /\ MinLength < MergeGap /\ MergeGap < Lookback /\ Lookback < FirstPass
    /\ FirstPass < LastInstant /\ MaxUpsets \in Nat
    /\ Captured \in [1..LastInstant -> SUBSET (Apps \cup {"none"})]

VARIABLES
    instant,    \* the clock
    shot,       \* Instants -> what the frame captured then shows
    owner,      \* Instants -> frames.session_id
    session,    \* SessionRows -> the row
    checkpoint, \* sessions.backfill_done_until
    pass,       \* the scheduler
    plan,       \* the store calls left in the pass
    neglected,  \* history: frames a failed or mistaken call left unassigned
    torn,       \* history: rows frozen in a pass of which a part had failed before
    upsets

sessionVars == <<instant, shot, owner, session, checkpoint, pass, plan, neglected, torn,
                upsets>>

Instants == 1..LastInstant
SessionRows == 1..MaxSessionRows
NoApp == "none"

NoRow == [live |-> FALSE, start |-> 0, end |-> 0, key |-> NoApp, frozen |-> FALSE]
NoPass == [pc |-> "asleep", now |-> 0, cut |-> 0, whole |-> TRUE,
           owned |-> [r \in SessionRows |-> {}]]

Shots == {t \in Instants : shot[t] # NoApp}
Live == {r \in SessionRows : session[r].live}
OwnedBy(r) == {t \in Shots : owner[t] = r}
Upset == upsets < MaxUpsets /\ upsets' = upsets + 1

-----------------------------------------------------------------------------
(* The segmenter *)

Linked(F, t, u) ==
    \A s \in F : (s >= t \/ s >= u) /\ (s < t \/ s < u) =>
        \E n \in F : s < n /\ n - s < MergeGap

\* The application of most frames, the first in some fixed order of those.
Dominant(F) ==
    LET count(a) == Cardinality({t \in F : shot[t] = a})
    IN CHOOSE a \in Apps : \A b \in Apps : count(b) <= count(a)

Draft(F, open) == [start |-> Min(F), end |-> Max(F), key |-> Dominant(F), ids |-> F, open |-> open]

\* segment: the drafts of the frames F.
Segment(F, now) ==
    LET tracks == {{u \in F : Linked(F, t, u)} : t \in F}
        kept == {T \in tracks : Max(T) - Min(T) >= MinLength}
    IN {Draft(T, Max(T) = Max(F) /\ now < Max(T) + MergeGap) : T \in kept}

-----------------------------------------------------------------------------
(* The incremental pass *)

Overlaps(d, r) == d.start <= session[r].end /\ d.end >= session[r].start
Narrowed(d, F) == [d EXCEPT !.ids = F, !.start = Min(F), !.end = Max(F)]

\* Mutant of TrimTail: drafts are taken as they are.
TrimTailNot(D, frozen) == D

\* trim_drafts_against_frozen: what lies after the frozen rows it meets.
TrimTail(D, frozen) ==
    LET met(d) == {session[r].end : r \in {s \in frozen : Overlaps(d, s)}}
        rest(d) == {t \in d.ids : \A e \in met(d) : t > e}
    IN {IF met(d) = {} THEN d ELSE Narrowed(d, rest(d)) : d \in {d \in D : rest(d) # {}}}

\* match_drafts_to_existing: in order, the row of the same key that overlaps
\* most, nearest in its start, oldest; each row once.
Matchings(D, existing, now) ==
    LET end(r) == IF session[r].end = 0 THEN now ELSE session[r].end
        low(d, r) == IF d.start > session[r].start THEN d.start ELSE session[r].start
        high(d, r) == IF d.end < end(r) THEN d.end ELSE end(r)
        apart(d, r) == IF d.start > session[r].start THEN d.start - session[r].start
                       ELSE session[r].start - d.start
        better(d, r, s) == \* r before s
            LET o == high(d, r) + low(d, s)  p == high(d, s) + low(d, r)
            IN \/ o > p
               \/ o = p /\ apart(d, r) < apart(d, s)
               \/ o = p /\ apart(d, r) = apart(d, s) /\ r <= s
        fit(m, d) == {r \in existing : /\ session[r].key = d.key
                                       /\ high(d, r) > low(d, r)
                                       /\ \A e \in D : e.start < d.start => m[e] # r}
    IN {m \in [D -> existing \cup {0}] : \A d \in D :
           IF fit(m, d) = {} THEN m[d] = 0
           ELSE m[d] \in fit(m, d) /\ \A s \in fit(m, d) : better(d, m[d], s)}

Call(op, row, draft) == [op |-> op, row |-> row, draft |-> draft]
NoDraft == [start |-> 0, end |-> 0, key |-> NoApp, ids |-> {}, open |-> FALSE]

Unfrozen == {r \in Live : ~session[r].frozen}

\* The drafts of the mutable tail: what the frozen rows leave of them.
IncrementalDrafts(now) ==
    LET from == Min({now - Lookback} \cup {session[r].start : r \in Unfrozen})
        seen == {t \in Shots : from <= t /\ t <= now}
    IN TrimTail(IF seen = {} THEN {} ELSE Segment(seen, now),
                {r \in Live : session[r].frozen /\ session[r].end > from
                                 /\ session[r].start <= now})

\* run_incremental_pass: the stale frames of matched rows are let go, rows
\* without a draft deleted, and each draft is put and its frames assigned.
IncrementalCalls(D, existing, to) ==
    {Call("release", to[d], d) : d \in {d \in D : to[d] # 0}}
    \cup {Call("drop", r, NoDraft) : r \in {r \in existing : \A d \in D : to[d] # r}}
    \cup {Call("put", to[d], d) : d \in D}

\* Which call comes first: a row that was put is given its frames at once; rows
\* and drafts are taken by their starts.
Turn == [new |-> 0, assign |-> 0, add |-> 0, freeze |-> 0, confirm |-> 0, undo |-> 0,
         release |-> 1, drop |-> 2, put |-> 3, own |-> 3, extend |-> 3]
Start(c) == IF c.op \in {"release", "drop"} THEN session[c.row].start ELSE c.draft.start
Before(c, o) ==
    \/ Turn[c.op] < Turn[o.op]
    \/ Turn[c.op] = Turn[o.op] /\ Start(c) < Start(o)
    \/ Turn[c.op] = Turn[o.op] /\ Start(c) = Start(o) /\ c.row < o.row

NextCall(op, c) == c.op = op /\ \A o \in plan : ~Before(o, c)
Done(c) == plan' = plan \ {c}

\* scheduler_loop wakes.
PassBegins ==
    LET D == IncrementalDrafts(instant)
    IN /\ pass.pc = "asleep"
       /\ pass' = [NoPass EXCEPT !.pc = "incremental", !.now = instant,
                                 !.owned = [r \in SessionRows |->
                                    IF r \in Unfrozen THEN OwnedBy(r) ELSE {}]]
       /\ \E to \in Matchings(D, Unfrozen, instant) :
             plan' = IncrementalCalls(D, Unfrozen, to)
       /\ UNCHANGED <<instant, shot, owner, session, checkpoint, neglected, torn, upsets>>

\* assign_frames_session changes the frames that are there and belong to no
\* frozen row.
Assignable(F) == {t \in F \cap Shots : owner[t] = 0 \/ ~session[owner[t]].frozen}
Assigned(F, r) == [t \in Instants |-> IF t \in Assignable(F) THEN r ELSE owner[t]]

RowOf(d) == [live |-> TRUE, start |-> d.start, end |-> IF d.open THEN 0 ELSE d.end,
             key |-> d.key, frozen |-> FALSE]

\* INTEGER PRIMARY KEY: one more than the largest row there is.
NextRow == 1 + Max({0} \cup Live)

\* Mutant of Deleted: the frames keep the number of the row.
DeletedAlone(r) == /\ session' = [session EXCEPT ![r] = NoRow]
                   /\ UNCHANGED owner

\* delete_unfrozen_session, ON DELETE SET NULL.
Deleted(r) ==
    IF session[r].frozen THEN UNCHANGED <<session, owner>>
    ELSE /\ session' = [session EXCEPT ![r] = NoRow]
         /\ owner' = [t \in Instants |-> IF owner[t] = r THEN 0 ELSE owner[t]]

Release(c) ==
    /\ NextCall("release", c) /\ Done(c)
    /\ owner' = Assigned(OwnedBy(c.row) \ c.draft.ids, 0)
    /\ UNCHANGED <<instant, shot, session, checkpoint, pass, neglected, torn, upsets>>

Drop(c) ==
    /\ NextCall("drop", c) /\ Done(c)
    /\ Deleted(c.row)
    /\ UNCHANGED <<instant, shot, checkpoint, pass, neglected, torn, upsets>>

\* insert_session, update_unfrozen_session.
Put(c) ==
    LET r == IF c.row = 0 THEN NextRow ELSE c.row
    IN /\ NextCall("put", c)
       /\ r <= MaxSessionRows
       /\ session' = [session EXCEPT ![r] = RowOf(c.draft)]
       /\ plan' = (plan \ {c}) \cup
                    {Call(IF pass.pc = "incremental" THEN "assign" ELSE "new", r, c.draft)}
       /\ UNCHANGED <<instant, shot, owner, checkpoint, pass, neglected, torn, upsets>>

\* The frames the row had when the pass began are left as they are; a row that
\* was dropped and whose number the new row took had frames, too.
Assign(c) ==
    /\ pass.pc = "incremental"
    /\ NextCall("assign", c) /\ Done(c)
    /\ owner' = Assigned(c.draft.ids \ pass.owned[c.row], c.row)
    /\ neglected' = (neglected \ c.draft.ids) \cup {t \in c.draft.ids \cap Shots : owner'[t] = 0}
    /\ UNCHANGED <<instant, shot, session, checkpoint, pass, torn, upsets>>

PassFreezes ==
    /\ pass.pc = "incremental"
    /\ plan = {}
    /\ pass' = [pass EXCEPT !.pc = "freeze"]
    /\ UNCHANGED <<instant, shot, owner, session, checkpoint, plan, neglected, torn, upsets>>

\* freeze_sessions(now - Lookback)
Frozen(now) == [r \in SessionRows |->
    IF session[r].live /\ session[r].end # 0 /\ session[r].end + Lookback < now
    THEN [session[r] EXCEPT !.frozen = TRUE] ELSE session[r]]

Freezes ==
    /\ session' = Frozen(pass.now)
    /\ torn' = torn \cup {r \in SessionRows :
                             session'[r].frozen /\ ~session[r].frozen /\ ~pass.whole}

\* The pass goes on if the call fails; the historical part gives way to a
\* throttled machine.
Freeze(throttled) ==
    /\ pass.pc = "freeze"
    /\ \E ok \in BOOLEAN :
        /\ \/ ok /\ Freezes /\ UNCHANGED upsets
           \/ ~ok /\ Upset /\ UNCHANGED <<session, torn>>
        /\ pass' = IF throttled THEN NoPass
                   ELSE [pass EXCEPT !.pc = "open", !.whole = @ /\ ok]
    /\ UNCHANGED <<instant, shot, owner, checkpoint, plan, neglected>>

-----------------------------------------------------------------------------
(* The historical backfill *)

\* Mutant of SafeCut: a chunk ends where it was to end.
SafeCutAnywhere(F, desired, limit) == IF desired < limit THEN desired ELSE limit

\* safe_backfill_cut: where a chunk can end, 0 if nowhere yet.
SafeCut(F, desired, limit) ==
    LET breaks == {b \in F : b >= desired /\ (\E a \in F : a < b)
                             /\ \A a \in F : a < b => b - a >= MergeGap}
        upto(b) == IF b < limit THEN b ELSE limit
    IN IF F = {} THEN upto(desired)
       ELSE IF breaks # {} THEN upto(Min(breaks))
       ELSE IF desired >= Max(F) + MergeGap THEN upto(desired) ELSE 0

\* trim_backfill_draft_against_frozen: what lies before the frozen rows it meets.
TrimHead(d, frozen) == {t \in d.ids : \A r \in frozen : Overlaps(d, r) => t < session[r].start}

\* run_backfill_chunk over the frames F before cut: a row that is like a draft is
\* taken for it, what the frozen rows leave of another is put.
BackfillCalls(F, cursor, cut, now) ==
    LET existing == {r \in Live : /\ session[r].start < cut
                                  /\ IF session[r].end = 0 THEN now > cursor
                                     ELSE session[r].end > cursor}
        same(d) == {r \in existing : session[r].key = d.key /\ session[r].start = d.start
                                       /\ session[r].end = d.end}
        rest(d) == TrimHead(d, {r \in existing : session[r].frozen})
        D == IF F = {} THEN {} ELSE Segment(F, cut + MergeGap)
        known == {d \in D : same(d) # {}}
    IN {Call(IF session[Max(same(d))].frozen THEN "extend" ELSE "own", Max(same(d)), d) : d \in known}
       \cup {Call("put", 0, Narrowed(d, rest(d))) : d \in {d \in D \ known : rest(d) # {}}}

Between(from, to) == {t \in Shots : from <= t /\ t < to}

\* How far the frames are read: until there is a safe end, or to the limit.
ScanEnd(cursor, desired, limit) ==
    LET ends == {Min({desired + MergeGap + k * ChunkLength, limit}) : k \in 0..LastInstant}
    IN Min({e \in ends : e >= limit \/ SafeCut(Between(cursor, e), desired, limit) # 0})

\* The checkpoint is made at the first frame, with the horizon of then as its
\* target, and the next chunk is read.
BackfillOpens ==
    LET horizon == pass.now - Lookback
        old == {t \in Shots : t < horizon}
        from == IF checkpoint.target # 0 THEN checkpoint
                ELSE [cursor |-> IF old = {} THEN horizon ELSE Min(old), target |-> horizon]
        desired == Min({from.cursor + ChunkLength, from.target})
        cut == SafeCut(Between(from.cursor, ScanEnd(from.cursor, desired, horizon)), desired, horizon)
    IN /\ pass.pc = "open"
       /\ checkpoint' = from
       /\ IF from.cursor >= from.target \/ horizon <= from.cursor \/ cut = 0
          THEN pass' = NoPass /\ UNCHANGED plan
          ELSE /\ pass' = [pass EXCEPT !.pc = "backfill", !.cut = cut]
               /\ plan' = BackfillCalls(Between(from.cursor, cut), from.cursor, cut, pass.now)
       /\ UNCHANGED <<instant, shot, owner, session, neglected, torn, upsets>>

\* Each draft of a chunk, one store call after the other.  session_frames_meta:
\* the frames its row has.
Meta(c) ==
    /\ \E op \in {"own", "extend", "new"} : NextCall(op, c)
    /\ pass' = [pass EXCEPT !.owned[c.row] = OwnedBy(c.row)]
    /\ plan' = (plan \ {c}) \cup {Call(IF c.op = "extend" THEN "add" ELSE "assign", c.row, c.draft)}
    /\ UNCHANGED <<instant, shot, owner, session, checkpoint, neglected, torn, upsets>>

\* assign_frames_session: the frames it has not.  When some cannot be assigned,
\* the others are all the same and the chunk is given up; a row that was not
\* frozen when the chunk was read is deleted first.
Own(c) ==
    LET want == c.draft.ids \ pass.owned[c.row]
    IN /\ pass.pc = "backfill"
       /\ \E op \in {"assign", "add"} : NextCall(op, c)
       /\ owner' = Assigned(want, c.row)
       /\ \/ /\ want \subseteq Assignable(want)
             /\ plan' = IF c.op = "add" THEN plan \ {c}
                        ELSE (plan \ {c}) \cup {Call("freeze", c.row, c.draft)}
             /\ UNCHANGED pass
          \/ /\ ~ (want \subseteq Assignable(want))
             /\ IF c.op = "add" THEN plan' = {} /\ pass' = NoPass
                ELSE plan' = {Call("undo", c.row, c.draft)} /\ UNCHANGED pass
       /\ UNCHANGED <<instant, shot, session, checkpoint, neglected, torn, upsets>>

\* freeze_sessions, which freezes every row that is old enough.
Seal(c) ==
    /\ NextCall("freeze", c)
    /\ Freezes
    /\ plan' = (plan \ {c}) \cup {Call("confirm", c.row, c.draft)}
    /\ UNCHANGED <<instant, shot, owner, checkpoint, pass, neglected, upsets>>

\* get_session: the row is frozen, or it is to be deleted and the chunk given up.
Confirm(c) ==
    /\ NextCall("confirm", c)
    /\ plan' = IF session[c.row].frozen THEN plan \ {c} ELSE {Call("undo", c.row, c.draft)}
    /\ UNCHANGED <<instant, shot, owner, session, checkpoint, pass, neglected, torn, upsets>>

\* delete_unfrozen_session, and the chunk is given up.
Undo(c) ==
    /\ NextCall("undo", c)
    /\ Deleted(c.row)
    /\ plan' = {}
    /\ pass' = NoPass
    /\ UNCHANGED <<instant, shot, checkpoint, neglected, torn, upsets>>

SaveCheckpoint ==
    /\ pass.pc = "backfill"
    /\ plan = {}
    /\ checkpoint' = [checkpoint EXCEPT !.cursor = pass.cut]
    /\ pass' = NoPass
    /\ UNCHANGED <<instant, shot, owner, session, plan, neglected, torn, upsets>>

-----------------------------------------------------------------------------
(* The environment *)

\* Time passes; a frame is captured or not.  A pass reads nothing later than the
\* instant it began at, so a frame captured during it is as good as one after it.
Tick ==
    /\ pass.pc = "asleep"
    /\ instant < LastInstant
    /\ instant' = instant + 1
    /\ \E a \in Captured[instant'] : shot' = [shot EXCEPT ![instant'] = a]
    /\ UNCHANGED <<owner, session, checkpoint, pass, plan, neglected, torn, upsets>>

DeleteFrame(t) ==
    /\ Upset
    /\ t \in Shots
    /\ shot' = [shot EXCEPT ![t] = NoApp]
    /\ owner' = [owner EXCEPT ![t] = 0]
    /\ UNCHANGED <<instant, session, checkpoint, pass, plan, neglected, torn>>

\* Frames the calls left in the incremental pass would have assigned.
Abandoned ==
    IF pass.pc # "incremental" THEN {}
    ELSE UNION {c.draft.ids : c \in {c \in plan : c.op \in {"put", "assign"}}}

\* A store call fails: the rest of its pass is given up, the next one runs.
CallFails ==
    /\ Upset
    /\ plan # {} \/ pass.pc = "backfill"
    /\ plan' = {}
    /\ pass' = IF pass.pc = "incremental" THEN [pass EXCEPT !.whole = FALSE] ELSE NoPass
    /\ neglected' = neglected \cup Abandoned
    /\ UNCHANGED <<instant, shot, owner, session, checkpoint, torn>>

\* The process dies; the next one starts with a pass.
ProcessDies ==
    /\ Upset
    /\ pass.pc # "asleep"
    /\ plan' = {}
    /\ pass' = NoPass
    /\ UNCHANGED <<instant, shot, owner, session, checkpoint, neglected, torn>>

-----------------------------------------------------------------------------
Histories == {s \in [Instants -> Apps \cup {NoApp}] : \A t \in Instants :
                 IF t <= FirstPass THEN s[t] \in Captured[t] ELSE s[t] = NoApp}

\* The sessions feature meets a history of frames.
SessionInit ==
    /\ instant = FirstPass
    /\ shot \in Histories
    /\ owner = [t \in Instants |-> 0]
    /\ session = [r \in SessionRows |-> NoRow]
    /\ checkpoint = [cursor |-> 0, target |-> 0]
    /\ pass = NoPass
    /\ plan = {}
    /\ neglected = {} /\ torn = {}
    /\ upsets = 0

SessionNext ==
    \/ PassBegins
    \/ \E c \in plan : Release(c) \/ Drop(c) \/ Put(c) \/ Assign(c)
    \/ \E c \in plan : Meta(c) \/ Own(c) \/ Seal(c) \/ Confirm(c) \/ Undo(c)
    \/ PassFreezes \/ BackfillOpens \/ SaveCheckpoint
    \/ \E throttled \in BOOLEAN : Freeze(throttled)
    \/ Tick \/ CallFails \/ ProcessDies
    \/ \E t \in Instants : DeleteFrame(t)

SessionSpec == SessionInit /\ [][SessionNext]_sessionVars

-----------------------------------------------------------------------------
(* Properties *)

Rows == [live : BOOLEAN, start : 0..LastInstant, end : 0..LastInstant,
         key : Apps \cup {NoApp}, frozen : BOOLEAN]
Passes == [pc : {"asleep", "incremental", "freeze", "open", "backfill"}, now : 0..LastInstant,
           cut : 0..LastInstant, whole : BOOLEAN, owned : [SessionRows -> SUBSET Instants]]
Drafts == [start : 0..LastInstant, end : 0..LastInstant, key : Apps \cup {NoApp},
           ids : SUBSET Instants, open : BOOLEAN]
Calls == [op : DOMAIN Turn, row : {0} \cup SessionRows, draft : Drafts]

SessionTypeOK ==
    /\ instant \in Instants
    /\ shot \in [Instants -> Apps \cup {NoApp}]
    /\ owner \in [Instants -> {0} \cup SessionRows]
    /\ session \in [SessionRows -> Rows]
    /\ checkpoint \in [cursor : 0..LastInstant, target : 0..LastInstant]
    /\ pass \in Passes
    /\ plan \subseteq Calls
    /\ plan # {} => pass.pc \in {"incremental", "backfill"}
    /\ \A t \in Instants : owner[t] # 0 => t \in Shots /\ owner[t] \in Live
    /\ neglected \subseteq Instants /\ torn \subseteq SessionRows /\ upsets \in 0..MaxUpsets

Apart(r, s) == session[r].end < session[s].start \/ session[s].end < session[r].start

\* "Sessions on the same track never overlap"
\* (specs/03_MASTER_PRODUCTION_SPEC.md:806); the frozen ones, which nothing
\* changes any more, never will be apart again.
TracksDisjoint ==
    \A r, s \in Live : r # s /\ session[r].frozen /\ session[s].frozen => Apart(r, s)

\* Frozen sessions do not overlap, wherever passes were cut off and whichever
\* part of the scheduler got to a stretch first (sessions_scheduler.rs:433);
\* unless one was frozen in a pass that went on after a part of it had failed.
FrozenDisjoint ==
    \A r, s \in Live \ torn : r # s /\ session[r].frozen /\ session[s].frozen => Apart(r, s)

\* The backfill leaves no session behind: a frame before the saved cursor belongs
\* to a session, unless its stretch of frames is too short to be one
\* (sessions_scheduler.rs:655).  Frames are left out that a failed incremental
\* call was to assign and the freeze pass then kept from being assigned, or that
\* a session covers which was frozen after such a failure.
BackfillLosesNothing ==
    \A t \in Shots :
        /\ t < checkpoint.cursor /\ owner[t] = 0 /\ t \notin neglected
        /\ \A r \in torn : t < session[r].start \/ session[r].end < t
        => LET track == {u \in Shots : Linked(Shots, t, u)}
           IN Max(track) - Min(track) < MinLength
=============================================================================
