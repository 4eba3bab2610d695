---------------------------- MODULE HistoryPages ----------------------------
(***************************************************************************)
(* Keyset paging over a table that changes between the pages: the frame    *)
(* evidence of GET /v1/frames (crates/store/src/history_pages.rs, with the *)
(* id allocator of history.rs), the saved reports of GET /v1/reports       *)
(* (report_pages.rs) and the frames of an export (export_frames_page,      *)
(* crates/api/src/export.rs).                                              *)
(*                                                                         *)
(* A behaviour is about one feed and one walk through it: the first page   *)
(* and the pages its cursors lead to.  The walk's filter is fixed, so a    *)
(* row carries whether it matches: that changes with the text a frame gets *)
(* after it was stored and with the phase and outcome of a report (the     *)
(* window a report overlaps counts with them).  A page is one read         *)
(* transaction.  The marks an export appends in one read are left out.     *)
(***************************************************************************)
EXTENDS Naturals, Sequences, FiniteSets

CONSTANTS
    MaxTime,        \* bound: timestamps are 1..MaxTime
    MaxRowId,       \* bound: row ids are 1..MaxRowId
    MaxHistories,   \* bound: databases, one after the other
    PageLimits,     \* the limits a client asks for
    ExportPageSize  \* PAGE_SIZE (500)

ASSUME PagesAssumption ==
    /\ MaxTime \in Nat \ {0} /\ MaxRowId \in Nat /\ MaxHistories \in Nat \ {0}
    /\ PageLimits \subseteq Nat \ {0} /\ ExportPageSize \in Nat \ {0}

VARIABLES
    feed,       \* what is paged: "frames", "reports" or "export"
    rows,       \* the table: id -> timestamp and whether the filter takes it
    spent,      \* ids given out in this database
    highWater,  \* api.frame_id_high_water
    historyId,  \* api.history_id
    walk,       \* the reader: its frozen window and snapshot, its cursor, its items
    atStart,    \* history: the positions the table held at the first page
    steady      \* history: of those, the ones that have matched ever since

pagesVars == <<feed, rows, spent, highWater, historyId, walk, atStart, steady>>

RowIds == 1..MaxRowId
Times == 1..MaxTime
Position == Times \X RowIds
Nowhere == <<0, 0>>

At(i) == <<rows[i].at, i>>
MaxId == IF DOMAIN rows = {} THEN 0 ELSE CHOOSE i \in DOMAIN rows : \A j \in DOMAIN rows : j <= i

Below(p, q) == p[1] < q[1] \/ (p[1] = q[1] /\ p[2] < q[2])

\* The order of the listing: oldest frame first, newest report first, an
\* export by id alone.
Precedes(p, q) ==
    \/ feed = "frames" /\ Below(p, q)
    \/ feed = "reports" /\ Below(q, p)
    \/ feed = "export" /\ p[2] < q[2]

-----------------------------------------------------------------------------
(* The writers *)

\* Mutant of AllocateFrameId: ids come from what the table holds.
AllocateFromTable == MaxId + 1

\* allocate_frame_id: an id is never given out twice in one history.
AllocateFrameId == (IF highWater > MaxId THEN highWater ELSE MaxId) + 1

\* Bound: the table is of interest while somebody may still read a page; what
\* RowMoves and NewDatabase do before the first page, Insert and Init do too.
Unfinished == walk.state \in {"idle", "open"}

Insert(i, t, matches) ==
    /\ Unfinished
    /\ rows' = [j \in DOMAIN rows \cup {i} |->
                    IF j = i THEN [at |-> t, matches |-> matches] ELSE rows[j]]
    /\ spent' = spent \cup {i}
    /\ UNCHANGED <<feed, historyId, walk, atStart, steady>>

InsertFrame(t, matches) ==
    /\ feed # "reports"
    /\ AllocateFrameId \in RowIds
    /\ Insert(AllocateFrameId, t, matches)
    /\ highWater' = AllocateFrameId

\* A run id is a fresh UUID: it sorts anywhere, and the clock may have
\* stepped back.
InsertReport(t, matches) ==
    /\ feed = "reports"
    /\ \E i \in RowIds \ spent : Insert(i, t, matches)
    /\ UNCHANGED highWater

\* The self-capture purge, or the pruning of old reports.
DeleteRow(i) ==
    /\ Unfinished
    /\ rows' = [j \in DOMAIN rows \ {i} |-> rows[j]]
    /\ steady' = steady \ {At(i)}
    /\ UNCHANGED <<feed, spent, highWater, historyId, walk, atStart>>

\* A report run moves to another phase or outcome; a frame gets the target
\* application and title its accessibility text brings.
RowMoves(i) ==
    /\ walk.state = "open"
    /\ feed # "export"
    /\ rows' = [rows EXCEPT ![i].matches = ~@]
    /\ steady' = steady \ {At(i)}
    /\ UNCHANGED <<feed, spent, highWater, historyId, walk, atStart>>

\* The database file is gone and the next launch sets up a new one
\* (setup_history_metadata); cursors outlive the process, an export does not.
NewDatabase ==
    /\ walk.state = "open"
    /\ feed # "export"
    /\ historyId < MaxHistories
    /\ historyId' = historyId + 1
    /\ highWater' = 0
    /\ rows' = [i \in {} |-> 0]
    /\ spent' = {}
    /\ steady' = {}
    /\ UNCHANGED <<feed, walk, atStart>>

-----------------------------------------------------------------------------
(* The pages *)

\* FRAME_PAGE_SQL, REPORT_PAGE_FIRST_SQL / REPORT_PAGE_AFTER_SQL and the query
\* of export_frames_page: where a page begins.
Seek(w) ==
    {i \in DOMAIN rows :
        LET p == At(i)
            s == IF w.after = Nowhere THEN <<w.from, 0>> ELSE w.after
        IN \/ /\ feed = "frames"
              /\ (p[1] = s[1] /\ p[2] > s[2]) \/ (p[1] > s[1] /\ p[1] < w.to)
           \/ /\ feed = "reports"
              /\ w.after = Nowhere \/ (p[1] = s[1] /\ p[2] < s[2]) \/ p[1] < s[1]
           \/ feed = "export" /\ p[2] > w.after[2] /\ p[1] >= w.from /\ p[1] < w.to}

\* The rows of the walk that are still to come.
Remaining(w) ==
    {i \in Seek(w) :
        /\ feed = "frames" => i <= w.top[2]
        /\ feed # "export" => rows[i].matches}

\* ORDER BY
Listing(S) ==
    CHOOSE s \in [1..Cardinality(S) -> S] :
        \A i, j \in 1..Cardinality(S) : i < j => Precedes(s[i], s[j])

\* LIMIT limit + 1, truncated to limit; the cursor is the last item when there
\* was one more.
PageOf(w, limit) ==
    LET all == Listing({At(i) : i \in Remaining(w)})
        items == SubSeq(all, 1, IF Len(all) < limit THEN Len(all) ELSE limit)
        more == Len(all) > Len(items)
    IN [w EXCEPT !.items = @ \o items,
                 !.after = IF more THEN items[Len(items)] ELSE w.after,
                 !.state = IF more THEN "open" ELSE "ended"]

\* The snapshot of a first page: the largest frame id, or the first tuple of
\* the reports' order.
Top ==
    CASE feed = "frames" -> <<MaxTime, MaxId>>
      [] feed = "reports" /\ DOMAIN rows # {} ->
            CHOOSE p \in {At(i) : i \in DOMAIN rows} :
                \A i \in DOMAIN rows : ~Below(p, At(i))
      [] OTHER -> Nowhere

Opened(from, to) ==
    [state |-> "open", from |-> from, to |-> to, history |-> historyId, top |-> Top,
     after |-> Nowhere, items |-> <<>>]

Begins(w) ==
    /\ walk.state = "idle"
    /\ walk' = w
    /\ atStart' = {At(i) : i \in DOMAIN rows}
    /\ UNCHANGED <<feed, rows, spent, highWater, historyId>>

\* The window a report overlaps is in its matches: any one will do.
FirstPage(from, to, limit) ==
    /\ feed # "export"
    /\ feed = "reports" => from = 1 /\ to = 2
    /\ Begins(PageOf(Opened(from, to), limit))
    /\ steady' = {At(i) : i \in Remaining(Opened(from, to))}

\* frame_page: the cursor belongs to this history and was given out by it.
Accepted == feed = "frames" => walk.history = historyId /\ walk.top[2] <= highWater

NextPage(limit) ==
    /\ feed # "export"
    /\ walk.state = "open"
    /\ walk' = IF Accepted THEN PageOf(walk, limit) ELSE [walk EXCEPT !.state = "refused"]
    /\ UNCHANGED <<feed, rows, spent, highWater, historyId, atStart, steady>>

\* The export writes its header, then one page after the other until one is
\* empty, and renames the file.
ExportBegins(from, to) ==
    /\ feed = "export"
    /\ Begins(Opened(from, to))
    /\ steady' = {At(i) : i \in Remaining(Opened(from, to))}

ExportPage ==
    /\ feed = "export"
    /\ walk.state = "open"
    /\ LET next == PageOf(walk, ExportPageSize)
       IN walk' = IF next.items = walk.items THEN next
                  ELSE [next EXCEPT !.state = "open", !.after = next.items[Len(next.items)]]
    /\ UNCHANGED <<feed, rows, spent, highWater, historyId, atStart, steady>>

\* A store or file error: the stream ends and the partial file is removed.
ExportFails ==
    /\ feed = "export"
    /\ walk.state = "open"
    /\ walk' = [walk EXCEPT !.state = "refused"]
    /\ UNCHANGED <<feed, rows, spent, highWater, historyId, atStart, steady>>

-----------------------------------------------------------------------------
PagesInit ==
    /\ feed \in {"frames", "reports", "export"}
    /\ rows = [i \in {} |-> 0]
    /\ spent = {}
    /\ highWater = 0
    /\ historyId = 1
    /\ walk = [state |-> "idle", from |-> 1, to |-> 1, history |-> 0, top |-> Nowhere,
               after |-> Nowhere, items |-> <<>>]
    /\ atStart = {}
    /\ steady = {}

PagesNext ==
    \/ \E t \in Times, matches \in BOOLEAN : InsertFrame(t, matches) \/ InsertReport(t, matches)
    \/ \E i \in DOMAIN rows : DeleteRow(i) \/ RowMoves(i)
    \/ NewDatabase
    \/ \E from \in Times : \E to \in (from + 1)..(MaxTime + 1) :
            ExportBegins(from, to) \/ \E limit \in PageLimits : FirstPage(from, to, limit)
    \/ \E limit \in PageLimits : NextPage(limit)
    \/ ExportPage
    \/ ExportFails

PagesSpec == PagesInit /\ [][PagesNext]_pagesVars

-----------------------------------------------------------------------------
(* Properties *)

PagesTypeOK ==
    /\ feed \in {"frames", "reports", "export"}
    /\ DOMAIN rows \subseteq RowIds
    /\ \A i \in DOMAIN rows : rows[i] \in [at : Times, matches : BOOLEAN]
    /\ spent \subseteq RowIds /\ highWater \in 0..MaxRowId /\ historyId \in 1..MaxHistories
    /\ walk.state \in {"idle", "open", "ended", "refused"}
    /\ walk.items \in Seq(Position)
    /\ atStart \subseteq Position /\ steady \subseteq Position

\* A walk through the pages is exact although rows come, go and change between
\* them: no item twice or out of order; no frame that was not there at the
\* first page, whatever was deleted and captured since; no report above the
\* frozen tuple; and a walk that ends has returned every row that matched from
\* its first page on (traits/src/history.rs:138, "BoundedMembershipLiveContent";
\* report_pages.rs:69).
WalkIsExact ==
    /\ \A i, j \in 1..Len(walk.items) : i < j => Precedes(walk.items[i], walk.items[j])
    /\ feed = "frames" => \A i \in 1..Len(walk.items) : walk.items[i] \in atStart
    /\ feed = "reports" => \A i \in 1..Len(walk.items) : ~Below(walk.top, walk.items[i])
    /\ walk.state = "ended" => \A p \in steady : \E i \in 1..Len(walk.items) : walk.items[i] = p
=============================================================================
