---------------------------- MODULE ModelDownload ----------------------------
(***************************************************************************)
(* ModelDownloader of crates/inference/src/download.rs: the files of one   *)
(* model, fetched by range into <file>.part with a bitmap of finished      *)
(* ranges in <file>.parts, resumed after an abort, an error or a power     *)
(* loss, and renamed into place.                                           *)
(*                                                                         *)
(* The contents of a range are the hub's version they came from, or 0 for  *)
(* bytes that were never received.  A part has what the OS holds of it     *)
(* (cached) and what a power loss leaves (synced).  The blob of hf-hub's   *)
(* cache and what is copied from it are never synced.  A blocking file     *)
(* operation outlives an aborted task; it is taken to end before the next  *)
(* run has asked the hub for its file list and opens the part again.       *)
(***************************************************************************)
EXTENDS Naturals, FiniteSets

CONSTANTS
    Fetchers,       \* callers of ensure
    NumFiles,       \* files of the model: weights, projector
    NumRanges,      \* ranges of a file
    Connections,    \* ranges fetched at a time (conns)
    MaxVersions,    \* bound: uploads to the hub
    MaxMishaps      \* bound: power losses, reclaimed parts and failed runs

ASSUME DownloadAssumption ==
    /\ {NumFiles, NumRanges, Connections, MaxVersions} \subseteq Nat \ {0}
    /\ MaxMishaps \in Nat

VARIABLES
    hub,        \* what the hub serves: its version and total length
    disk,       \* ModelFiles -> the file, its part and its bitmap; its blob in hf-hub's
                \* cache, and whether a power loss has hit that blob or its copy
    fetcher,    \* Fetchers -> where its ensure is
    fetch,      \* the download task of the fetcher that holds the lane lock
    regrown,    \* history: parts grown under a bitmap nobody has reset yet
    mishaps

downloadVars == <<hub, disk, fetcher, fetch, regrown, mishaps>>

ModelFiles == 1..NumFiles
Ranges == 1..NumRanges
Lengths == {1, 2}
Contents == 0..MaxVersions
Zeros == [c \in Ranges |-> 0]

NoPart == [len |-> 0, firm |-> TRUE, cached |-> Zeros, synced |-> Zeros]
NoBitmap == [total |-> 0, done |-> {}]
Nothing == [dest |-> Zeros, placed |-> FALSE, part |-> NoPart, bitmap |-> NoBitmap,
            blob |-> Zeros, copy |-> "none"]
NoFetch == [pc |-> "none", file |-> 0, total |-> 0, sha |-> 0, unbacked |-> FALSE,
            range |-> [c \in Ranges |-> "idle"]]

\* model_files_present
FilesPresent == \A f \in ModelFiles : disk[f].placed

Mishap == mishaps < MaxMishaps /\ mishaps' = mishaps + 1
Here == disk[fetch.file]
\* The task's file has the part p and the bitmap b.
Leaves(p, b) == disk' = [disk EXCEPT ![fetch.file].part = p, ![fetch.file].bitmap = b]
Goes(pc) == fetch' = [fetch EXCEPT !.pc = pc]

-----------------------------------------------------------------------------
(* ensure, and the watchdog of run_download *)

Ensure(k) ==
    /\ fetcher[k] = "idle"
    /\ ~FilesPresent
    /\ fetcher' = [fetcher EXCEPT ![k] = "queued"]
    /\ UNCHANGED <<hub, disk, fetch, regrown, mishaps>>

\* Under the lane lock the files are looked for again.
EnsureLocked(k) ==
    /\ fetcher[k] = "queued"
    /\ \A o \in Fetchers : fetcher[o] # "running"
    /\ \/ /\ FilesPresent
          /\ fetcher' = [fetcher EXCEPT ![k] = "idle"]
          /\ UNCHANGED fetch
       \/ /\ ~FilesPresent
          /\ fetcher' = [fetcher EXCEPT ![k] = "running"]
          /\ fetch' = [NoFetch EXCEPT !.pc = "file", !.file = 1]
    /\ UNCHANGED <<hub, disk, regrown, mishaps>>

\* finish_download: the task ended, well or not.
FinishDownload(k) ==
    /\ fetcher[k] = "running"
    /\ fetch.pc \in {"done", "failed"}
    /\ fetcher' = [fetcher EXCEPT ![k] = "idle"]
    /\ fetch' = NoFetch
    /\ UNCHANGED <<hub, disk, regrown, mishaps>>

\* Of the ranges under way, some operations take effect and some do not.
CutShort ==
    \E wrote \in [{c \in Ranges : fetch.range[c] = "asked"} -> Contents] :
    \E marked \in SUBSET {c \in Ranges : fetch.range[c] = "synced"} :
        /\ \A c \in DOMAIN wrote : wrote[c] \in {Here.part.cached[c], 0, hub.version}
        /\ Leaves([Here.part EXCEPT !.cached = [c \in Ranges |->
                       IF c \in DOMAIN wrote THEN wrote[c] ELSE @[c]]],
                  [Here.bitmap EXCEPT !.done = @ \cup marked])

\* No byte for STALL_TIMEOUT: the task is aborted and not waited for.  The
\* watchdog may act on what it read before the task went on to publish.
Stalls(k) ==
    /\ fetcher[k] = "running"
    /\ fetch.pc \notin {"none", "done", "failed"}
    /\ Mishap
    /\ CutShort
    /\ fetcher' = [fetcher EXCEPT ![k] = "idle"]
    /\ fetch' = NoFetch
    /\ UNCHANGED <<hub, regrown>>

-----------------------------------------------------------------------------
(* download_repo_files and fetch_one *)

\* The file is in place already: the next one, if there is one.
NextFile ==
    /\ fetch.pc = "file"
    /\ Here.placed
    /\ fetch' = IF fetch.file < NumFiles THEN [fetch EXCEPT !.file = @ + 1]
                ELSE [fetch EXCEPT !.pc = "done"]
    /\ UNCHANGED <<hub, disk, fetcher, regrown, mishaps>>

\* place_if_cached, and the end of the single stream: place_in_clean_layout copies
\* the blob aside and renames the copy.
PlaceCached ==
    /\ fetch.pc = "file"
    /\ ~Here.placed /\ Here.copy # "none"
    /\ disk' = [disk EXCEPT ![fetch.file].dest = Here.blob, ![fetch.file].placed = TRUE]
    /\ UNCHANGED <<hub, fetcher, fetch, regrown, mishaps>>

\* probe_range: the length, and the hash when the hub gives it.
Probe(sha) ==
    /\ fetch.pc = "file"
    /\ ~Here.placed /\ Here.copy = "none"
    /\ fetch' = [fetch EXCEPT !.pc = "open", !.total = hub.length,
                              !.sha = IF sha THEN hub.version ELSE 0]
    /\ UNCHANGED <<hub, disk, fetcher, regrown, mishaps>>

\* No ranges: hf-hub fetches the file whole into its cache.
SingleStream ==
    /\ fetch.pc = "file"
    /\ ~Here.placed /\ Here.copy = "none"
    /\ disk' = [disk EXCEPT ![fetch.file].blob = [c \in Ranges |-> hub.version],
                            ![fetch.file].copy = "unsynced"]
    /\ UNCHANGED <<hub, fetcher, fetch, regrown, mishaps>>

\* A hub or file operation fails between two files or before the ranges start.
TaskFails ==
    /\ fetch.pc \in {"file", "open", "load"}
    /\ Mishap
    /\ Goes("failed")
    /\ UNCHANGED <<hub, disk, fetcher, regrown>>

-----------------------------------------------------------------------------
(* chunked_download *)

\* open_preallocated: created, or re-grown or cut to the length when it is not
\* that long; such a part cannot back a finished range.
OpenPreallocated ==
    LET unbacked == Here.part.len # fetch.total
    IN /\ fetch.pc = "open"
       /\ Leaves(IF unbacked THEN [Here.part EXCEPT !.len = fetch.total, !.firm = FALSE]
                 ELSE Here.part, Here.bitmap)
       /\ fetch' = [fetch EXCEPT !.pc = "load", !.unbacked = unbacked]
       /\ regrown' = IF unbacked /\ Here.bitmap.done # {} THEN regrown \cup {fetch.file}
                     ELSE regrown
       /\ UNCHANGED <<hub, fetcher, mishaps>>

\* Mutant of TrustedMarks: a part that was just created backs its bitmap.
TrustedMarksAlways == IF Here.bitmap.total = fetch.total THEN Here.bitmap.done ELSE {}

\* Manifest::load_or_init and reinit: a bitmap of this download, over a part
\* that has its length; otherwise every range is pending.
TrustedMarks ==
    IF Here.bitmap.total = fetch.total /\ ~fetch.unbacked THEN Here.bitmap.done ELSE {}

LoadBitmap ==
    /\ fetch.pc = "load"
    /\ Leaves(Here.part, [total |-> fetch.total, done |-> TrustedMarks])
    /\ fetch' = [fetch EXCEPT !.pc = "ranges",
                              !.range = [c \in Ranges |-> IF c \in TrustedMarks THEN "done"
                                                          ELSE "idle"]]
    /\ regrown' = regrown \ {f \in {fetch.file} : fetch.unbacked}
    /\ UNCHANGED <<hub, fetcher, mishaps>>

SetRange(c, state) == fetch' = [fetch EXCEPT !.range[c] = state]

\* fetch_chunk: the request, however often it is retried.
AskRange(c) ==
    /\ fetch.pc = "ranges"
    /\ fetch.range[c] = "idle"
    /\ Cardinality({o \in Ranges : fetch.range[o] \in {"asked", "written", "synced"}})
         < Connections
    /\ SetRange(c, "asked")
    /\ UNCHANGED <<hub, disk, fetcher, regrown, mishaps>>

\* 206, and the body arrived whole.
WriteRange(c) ==
    /\ fetch.pc = "ranges"
    /\ fetch.range[c] = "asked"
    /\ Leaves([Here.part EXCEPT !.cached[c] = hub.version], Here.bitmap)
    /\ SetRange(c, "written")
    /\ UNCHANGED <<hub, fetcher, regrown, mishaps>>

\* The data of the file is durable before the range is marked.
SyncRange(c) ==
    /\ fetch.pc = "ranges"
    /\ fetch.range[c] = "written"
    /\ Leaves([Here.part EXCEPT !.synced = Here.part.cached, !.firm = TRUE], Here.bitmap)
    /\ SetRange(c, "synced")
    /\ UNCHANGED <<hub, fetcher, regrown, mishaps>>

\* mark_complete, durably.
MarkRange(c) ==
    /\ fetch.pc = "ranges"
    /\ fetch.range[c] = "synced"
    /\ Leaves(Here.part, [Here.bitmap EXCEPT !.done = @ \cup {c}])
    /\ SetRange(c, "done")
    /\ UNCHANGED <<hub, fetcher, regrown, mishaps>>

\* A range fails for good (no 206, a short read, an overrun, an I/O error): the
\* others are dropped and part and bitmap stay.
RangeFails ==
    /\ fetch.pc = "ranges"
    /\ \E c \in Ranges : fetch.range[c] \in {"asked", "written", "synced"}
    /\ Mishap
    /\ CutShort
    /\ Goes("failed")
    /\ UNCHANGED <<hub, fetcher, regrown>>

\* verify_and_publish: everything is synced, then the length and, if the hub
\* gave it, the hash are compared; a part that fails is thrown away.
Verify ==
    /\ fetch.pc = "ranges"
    /\ \A c \in Ranges : fetch.range[c] = "done"
    /\ \/ /\ fetch.sha # 0 => \A c \in Ranges : Here.part.cached[c] = fetch.sha
          /\ Leaves([Here.part EXCEPT !.synced = Here.part.cached, !.firm = TRUE], Here.bitmap)
          /\ Goes("publish")
       \/ /\ fetch.sha # 0 /\ \E c \in Ranges : Here.part.cached[c] # fetch.sha
          /\ \E b \in {NoBitmap, Here.bitmap} : Leaves(NoPart, b)
          /\ Goes("failed")
    /\ UNCHANGED <<hub, fetcher, regrown, mishaps>>

\* The rename.
Publish ==
    /\ fetch.pc = "publish"
    /\ disk' = [disk EXCEPT ![fetch.file] = [@ EXCEPT !.dest = Here.part.cached, !.placed = TRUE,
                                                      !.part = NoPart]]
    /\ Goes("clean")
    /\ UNCHANGED <<hub, fetcher, regrown, mishaps>>

\* The bitmap is removed, if it can be.
CleanUp ==
    /\ fetch.pc = "clean"
    /\ \E b \in {NoBitmap, Here.bitmap} : Leaves(Here.part, b)
    /\ Goes("file")
    /\ UNCHANGED <<hub, fetcher, regrown, mishaps>>

-----------------------------------------------------------------------------
(* The environment *)

\* What is left of the bytes d without the ranges gone.
Without(d, gone) == [c \in Ranges |-> IF c \in gone THEN 0 ELSE d[c]]

\* Another version of the file is uploaded, of the same length or not.
Upload ==
    /\ hub.version < MaxVersions
    /\ hub' \in [version : {hub.version + 1}, length : Lengths]
    /\ UNCHANGED <<disk, fetcher, fetch, regrown, mishaps>>

\* A cleaner deletes the part, or leaves it with another length and less in it.
Reclaim(f) ==
    /\ fetch = NoFetch
    /\ disk[f].part.len # 0
    /\ Mishap
    /\ \E gone \in SUBSET Ranges : \E len \in {0, 3} :
         LET left == Without(disk[f].part.cached, gone)
         IN /\ len = 0 => gone = Ranges
            /\ disk' = [disk EXCEPT ![f].part = [len |-> len, firm |-> TRUE, cached |-> left,
                                                 synced |-> left]]
    /\ UNCHANGED <<hub, fetcher, fetch, regrown>>

\* The file d after a power loss.  What was not synced of its part is lost or not; so
\* is the length of a part that never was.  A file published by the rename of its part
\* was synced; a blob and its copy were not.
AfterLoss(d, kept, grown, lost) ==
    [d EXCEPT !.part = [len |-> IF d.part.firm \/ grown THEN d.part.len ELSE 3, firm |-> TRUE,
                        cached |-> kept, synced |-> kept],
              !.blob = Without(d.blob, lost.blob),
              !.dest = Without(d.dest, lost.dest),
              !.copy = IF d.copy = "none" THEN "none" ELSE "hit"]

PowerLoss ==
    /\ Mishap
    /\ \E kept \in [ModelFiles -> [Ranges -> Contents]] : \E grown \in [ModelFiles -> BOOLEAN] :
       \E lost \in [ModelFiles -> [blob : SUBSET Ranges, dest : SUBSET Ranges]] :
         /\ \A f \in ModelFiles : \A c \in Ranges :
                kept[f][c] \in {disk[f].part.cached[c], disk[f].part.synced[c]}
         /\ \A f \in ModelFiles : disk[f].copy = "none" => lost[f].blob \cup lost[f].dest = {}
         /\ disk' = [f \in ModelFiles |-> AfterLoss(disk[f], kept[f], grown[f], lost[f])]
    /\ fetcher' = [k \in Fetchers |-> "idle"]
    /\ fetch' = NoFetch
    /\ UNCHANGED <<hub, regrown>>

-----------------------------------------------------------------------------
DownloadInit ==
    /\ hub = [version |-> 1, length |-> 1]
    /\ disk = [f \in ModelFiles |-> Nothing]
    /\ fetcher = [k \in Fetchers |-> "idle"]
    /\ fetch = NoFetch
    /\ regrown = {}
    /\ mishaps = 0

DownloadNext ==
    \/ \E k \in Fetchers : Ensure(k) \/ EnsureLocked(k) \/ FinishDownload(k) \/ Stalls(k)
    \/ NextFile \/ PlaceCached \/ SingleStream \/ TaskFails \/ OpenPreallocated \/ LoadBitmap
    \/ \E sha \in BOOLEAN : Probe(sha)
    \/ \E c \in Ranges : AskRange(c) \/ WriteRange(c) \/ SyncRange(c) \/ MarkRange(c)
    \/ RangeFails \/ Verify \/ Publish \/ CleanUp
    \/ Upload \/ PowerLoss
    \/ \E f \in ModelFiles : Reclaim(f)

DownloadSpec == DownloadInit /\ [][DownloadNext]_downloadVars

-----------------------------------------------------------------------------
(* Properties *)

DownloadTypeOK ==
    /\ hub \in [version : 1..MaxVersions, length : Lengths]
    /\ disk \in [ModelFiles -> [dest : [Ranges -> Contents], placed : BOOLEAN,
                    part : [len : 0..3, firm : BOOLEAN, cached : [Ranges -> Contents],
                            synced : [Ranges -> Contents]],
                    bitmap : [total : {0} \cup Lengths, done : SUBSET Ranges],
                    blob : [Ranges -> Contents], copy : {"none", "unsynced", "hit"}]]
    /\ fetcher \in [Fetchers -> {"idle", "queued", "running"}]
    /\ fetch.pc \in {"none", "file", "open", "load", "ranges", "publish", "clean", "done", "failed"}
    /\ Cardinality({k \in Fetchers : fetcher[k] = "running"}) = IF fetch = NoFetch THEN 0 ELSE 1
    /\ regrown \subseteq ModelFiles
    /\ mishaps \in 0..MaxMishaps

\* A file in place was received whole, whatever was aborted, lost, resumed or
\* reclaimed on the way and also when the hub gave no hash: no range of it is the
\* zeros of the preallocation (download.rs:1139) or was lost.  Left out: a part
\* re-grown by a run that ended before it reset the bitmap, which the next run
\* trusts; and a file that came through hf-hub's cache, from which it is copied and
\* renamed unsynced (download.rs:356), if there was a power loss since.
DownloadIsWhole ==
    \A f \in ModelFiles : disk[f].placed /\ f \notin regrown /\ disk[f].copy # "hit" =>
        \A c \in Ranges : disk[f].dest[c] # 0
=============================================================================
