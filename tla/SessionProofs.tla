--------------------------- MODULE SessionProofs ---------------------------
(***************************************************************************)
(* Theorems about SessionScheduler: rows, frames and calls keep their      *)
(* types, frozen sessions do not overlap, and no frame is left behind.     *)
(***************************************************************************)
EXTENDS SessionScheduler, FiniteSetTheorems, WellFoundedInduction, TLAPS

\* A set of natural numbers that has elements has a least one.
LEMMA LeastNatural ==
    ASSUME NEW S \in SUBSET Nat, S # {}
    PROVE  \E m \in S : \A k \in S : m <= k
<1> DEFINE T == {0..k : k \in S}
           R == StrictSubsetOrdering(Nat)
<1>1. T # {} /\ T \subseteq FiniteSubsetsOf(Nat)
  <2>1. \A k \in S : 0..k \in SUBSET Nat /\ IsFiniteSet(0..k)
    <3>1. \A k \in S : k \in Int
      OBVIOUS
    <3> QED BY <3>1, FS_Interval
  <2>2. T # {}
    OBVIOUS
  <2>3. T \subseteq FiniteSubsetsOf(Nat)
    BY <2>1 DEF FiniteSubsetsOf
  <2> QED BY <2>2, <2>3
<1>2. IsWellFoundedOn(R, FiniteSubsetsOf(Nat))
  BY FS_StrictSubsetOrderingWellFounded
<1> HIDE DEF R
<1>3. \E x \in T : \A y \in T : ~(<<y, x>> \in R)
  <2> HIDE DEF T
  <2> QED BY <1>1, <1>2, WFMin
<1>4. PICK m \in S : \A k \in S : ~(<<0..k, 0..m>> \in R)
  BY <1>3
<1>5. ASSUME NEW k \in S, k < m PROVE FALSE
  <2>1. 0..k \in SUBSET Nat /\ 0..m \in SUBSET Nat /\ 0..k \subseteq 0..m
    BY <1>5
  <2>2. m \in 0..m /\ m \notin 0..k
    BY <1>5
  <2>3. <<0..k, 0..m>> \in R
    BY <2>1, <2>2 DEF R, StrictSubsetOrdering
  <2> QED BY <1>4, <2>3
<1> QED BY <1>5

\* A bounded one has a greatest.
LEMMA GreatestNatural ==
    ASSUME NEW n \in Nat, NEW S \in SUBSET (0..n), S # {}
    PROVE  \E m \in S : \A k \in S : k <= m
<1> DEFINE T == {n - k : k \in S}
<1>1. T \in SUBSET Nat /\ T # {}
  <2>1. \A k \in S : n - k \in Nat
    OBVIOUS
  <2>2. T # {}
    OBVIOUS
  <2>3. T \in SUBSET Nat
    BY <2>1
  <2> QED BY <2>2, <2>3
<1>2. PICK t \in T : \A k \in T : t <= k
  BY <1>1, LeastNatural
<1>3. PICK m \in S : t = n - m
  OBVIOUS
<1>4. ASSUME NEW k \in S PROVE k <= m
  <2>1. n - m <= n - k
    BY <1>2, <1>3
  <2> QED BY <2>1
<1> QED BY <1>4


\* The least member of a set of naturals, and the greatest of one with a bound.
LEMMA MinOf ==
    ASSUME NEW S \in SUBSET Nat, S # {}
    PROVE  Min(S) \in S /\ \A k \in S : Min(S) <= k
<1>1. PICK m \in S : \A k \in S : m <= k
  BY LeastNatural
<1> QED BY <1>1 DEF Min

\* Max, of the community modules, is that element.
LEMMA MaxOf ==
    ASSUME NEW n \in Nat, NEW S \in SUBSET (0..n), S # {}
    PROVE  Max(S) \in S /\ \A k \in S : k <= Max(S)
<1>1. PICK m \in S : \A k \in S : k <= m
  BY GreatestNatural
<1>2. m \in S /\ \A k \in S : m >= k
  BY <1>1
<1> QED BY <1>2 DEF Max

\* The assumption on the constants, part by part.
LEMMA SessionFacts ==
    /\ MergeGap \in Nat /\ MinLength \in Nat /\ Lookback \in Nat /\ ChunkLength \in Nat
    /\ FirstPass \in Nat /\ LastInstant \in Nat /\ MaxSessionRows \in Nat /\ MaxUpsets \in Nat
    /\ 1 <= MinLength /\ MinLength < MergeGap /\ MergeGap < Lookback /\ Lookback < FirstPass
    /\ FirstPass < LastInstant /\ 1 <= ChunkLength /\ 1 <= MaxSessionRows
BY SessionAssumption

\* Instants are numbers up to the last one.
LEMMA InstantsNat == Instants \subseteq Nat /\ Instants \subseteq 0..LastInstant
BY SessionFacts DEF Instants

-----------------------------------------------------------------------------
(* The segmenter: the tracks of a set of frames part it, in order. *)

\* Linked, the merge of frames with gaps below MergeGap (segment), is an
\* equivalence on frames: a frame is linked to itself,
LEMMA LinkedSelf ==
    ASSUME NEW F \in SUBSET Instants, NEW t \in F
    PROVE  Linked(F, t, t)
BY SessionFacts DEF Linked, Instants

\* in both directions,
LEMMA LinkedBack ==
    ASSUME NEW F \in SUBSET Instants, NEW t \in F, NEW u \in F, Linked(F, t, u)
    PROVE  Linked(F, u, t)
BY DEF Linked

\* and through others.
LEMMA LinkedOn ==
    ASSUME NEW F \in SUBSET Instants, NEW t \in F, NEW u \in F, NEW v \in F,
           Linked(F, t, u), Linked(F, u, v)
    PROVE  Linked(F, t, v)
<1> SUFFICES ASSUME NEW s \in F, (s >= t \/ s >= v) /\ (s < t \/ s < v)
             PROVE  \E n \in F : s < n /\ n - s < MergeGap
  BY DEF Linked
<1>1. \/ (s >= t \/ s >= u) /\ (s < t \/ s < u)
      \/ (s >= u \/ s >= v) /\ (s < u \/ s < v)
  <2>1. s \in Nat /\ t \in Nat /\ u \in Nat /\ v \in Nat
    BY InstantsNat
  <2> QED BY <2>1
<1> QED BY <1>1 DEF Linked

\* Whatever lies between two linked frames is linked to them.
LEMMA LinkedBetween ==
    ASSUME NEW F \in SUBSET Instants, NEW t \in F, NEW u \in F, NEW v \in F,
           Linked(F, t, u), (t <= v /\ v <= u) \/ (u <= v /\ v <= t)
    PROVE  Linked(F, t, v)
<1> SUFFICES ASSUME NEW s \in F, (s >= t \/ s >= v) /\ (s < t \/ s < v)
             PROVE  \E n \in F : s < n /\ n - s < MergeGap
  BY DEF Linked
<1>1. (s >= t \/ s >= u) /\ (s < t \/ s < u)
  BY DEF Instants
<1> QED BY <1>1 DEF Linked

\* Frames less than a merge gap apart are linked.
LEMMA LinkedNear ==
    ASSUME NEW F \in SUBSET Instants, NEW t \in F, NEW u \in F, t < u, u < t + MergeGap
    PROVE  Linked(F, t, u)
BY SessionFacts DEF Linked, Instants

TrackOf(F, t) == {u \in F : Linked(F, t, u)}

\* Linked frames have the same track.
LEMMA SameTrack ==
    ASSUME NEW F \in SUBSET Instants, NEW t \in F, NEW u \in F, Linked(F, t, u)
    PROVE  TrackOf(F, t) = TrackOf(F, u)
BY LinkedBack, LinkedOn, Zenon DEF TrackOf

\* Tracks do not interleave: one is all before the other.
LEMMA TracksApart ==
    ASSUME NEW F \in SUBSET Instants, NEW t \in F, NEW w \in F, t < w,
           TrackOf(F, t) # TrackOf(F, w),
           NEW u \in TrackOf(F, t), NEW v \in TrackOf(F, w)
    PROVE  u < v
<1>1. u \in F /\ v \in F /\ Linked(F, t, u) /\ Linked(F, w, v) /\ ~Linked(F, t, w)
  BY SameTrack DEF TrackOf
<1>2. {t, u, v, w} \subseteq Nat
  BY <1>1 DEF Instants
<1>3. u < w
  <2>1. CASE w <= u
    <3>1. t <= w
      BY <1>2
    <3> QED BY <2>1, <3>1, <1>1, LinkedBetween
  <2> QED BY <2>1, <1>2
<1>4. CASE v <= u
  <2>1. Linked(F, w, u)
    BY <1>1, <1>2, <1>3, <1>4, LinkedBetween
  <2>2. Linked(F, u, w)
    BY <2>1, <1>1, LinkedBack
  <2> QED BY <2>2, <1>1, LinkedOn
<1> QED BY <1>4, <1>2

\* A session of a set F of frames: those of a track.
IsTrack(F, T) ==
    /\ T \in SUBSET F /\ T # {}
    /\ \A t \in T, u \in F : t < u /\ u < t + MergeGap => u \in T
    /\ Min(T) \in T /\ Max(T) \in T
    /\ \A t \in T : Min(T) <= t /\ t <= Max(T)

\* The frames linked to one form a track.
LEMMA TrackOK ==
    ASSUME NEW F \in SUBSET Instants, NEW t \in F
    PROVE  IsTrack(F, TrackOf(F, t))
<1> DEFINE T == TrackOf(F, t)
<1>1. T \in SUBSET F /\ t \in T
  BY LinkedSelf DEF TrackOf
<1>2. ASSUME NEW u \in T, NEW v \in F, u < v, v < u + MergeGap
      PROVE  v \in T
  <2>1. u \in F /\ Linked(F, t, u)
    BY DEF TrackOf
  <2>2. Linked(F, u, v)
    BY <2>1, <1>2, LinkedNear
  <2> QED BY <2>1, <2>2, LinkedOn DEF TrackOf
<1>3. T \in SUBSET (0..LastInstant) /\ T \in SUBSET Nat
  BY <1>1, InstantsNat
<1> HIDE DEF T
<1>4. Min(T) \in T /\ \A k \in T : Min(T) <= k
  BY <1>1, <1>3, MinOf
<1>5. Max(T) \in T /\ \A k \in T : k <= Max(T)
  BY <1>1, <1>3, SessionFacts, MaxOf
<1>6. IsTrack(F, T)
  BY <1>1, <1>2, <1>4, <1>5 DEF IsTrack
<1> QED BY <1>6 DEF T

\* A track of more than one instant goes on within the gap.
LEMMA TrackGoesOn ==
    ASSUME NEW F \in SUBSET Instants, NEW t \in F,
           NEW T, T = TrackOf(F, t), Min(T) < Max(T)
    PROVE  \E n \in T : Min(T) < n /\ n < Min(T) + MergeGap
<1>1. IsTrack(F, T)
  BY TrackOK
<1>2. Min(T) \in F /\ Max(T) \in F /\ Linked(F, t, Min(T)) /\ Linked(F, t, Max(T))
  BY <1>1 DEF IsTrack, TrackOf
<1>3. Linked(F, Min(T), Max(T))
  BY <1>2, LinkedBack, LinkedOn
<1>4. {Min(T), Max(T)} \subseteq Nat
  BY <1>2, InstantsNat
<1>5. PICK n \in F : Min(T) < n /\ n - Min(T) < MergeGap
  BY <1>2, <1>3, <1>4 DEF Linked
<1>6. n < Min(T) + MergeGap
  BY <1>4, <1>5, SessionFacts DEF Instants
<1> QED BY <1>1, <1>5, <1>6 DEF IsTrack

\* A draft of the frames F as the segmenter makes it: the frames of its span, none
\* within the gap left out, and more than one of them.
DraftOK(F, d) ==
    /\ d.ids \in SUBSET F /\ {d.start, d.end} \subseteq d.ids
    /\ \A t \in d.ids : d.start <= t /\ t <= d.end
    /\ \A t \in d.ids, u \in F : t < u /\ u < t + MergeGap => u \in d.ids
    /\ \E n \in d.ids : d.start < n /\ n < d.start + MergeGap

\* The dominant application of some frames is an application.
LEMMA DominantOK ==
    ASSUME shot \in [Instants -> Apps \cup {NoApp}], NEW F \in SUBSET Shots, F # {}
    PROVE  Dominant(F) \in Apps
<1> DEFINE count(a) == Cardinality({t \in F : shot[t] = a})
           n == Cardinality(F)
           S == {count(a) : a \in Apps}
<1>1. IsFiniteSet(F) /\ n \in Nat
  <2>1. IsFiniteSet(Instants)
    BY SessionFacts, FS_Interval DEF Instants
  <2>2. F \subseteq Instants
    BY DEF Shots
  <2> QED BY <2>1, <2>2, FS_Subset, FS_CardinalityType
<1>2. \A a \in Apps : count(a) \in 0..n
  <2> TAKE a \in Apps
  <2>1. {t \in F : shot[t] = a} \subseteq F
    OBVIOUS
  <2>2. count(a) \in Nat /\ count(a) <= n
    BY <1>1, <2>1, FS_Subset, FS_CardinalityType
  <2> QED BY <1>1, <2>2
<1>3. Apps # {}
  BY DEF Shots, NoApp
<1>4. S \in SUBSET (0..n) /\ S # {}
  BY <1>2, <1>3
<1> HIDE DEF count, n
<1>5. PICK m \in S : \A k \in S : k <= m
  BY <1>1, <1>4, GreatestNatural
<1>6. \E a \in Apps : \A b \in Apps : count(b) <= count(a)
  BY <1>5
<1> QED BY <1>6 DEF Dominant, count

\* The fields of a draft.
LEMMA DraftFields ==
    ASSUME NEW T, NEW open
    PROVE  /\ Draft(T, open).start = Min(T) /\ Draft(T, open).end = Max(T)
           /\ Draft(T, open).key = Dominant(T) /\ Draft(T, open).ids = T
           /\ Draft(T, open).open = open
BY DEF Draft

\* What segment makes of a draft's track.
LEMMA SegmentIs ==
    ASSUME NEW F \in SUBSET Instants, NEW now, NEW d \in Segment(F, now)
    PROVE  \E t \in F : /\ d = Draft(TrackOf(F, t), Max(TrackOf(F, t)) = Max(F)
                                                       /\ now < Max(TrackOf(F, t)) + MergeGap)
                        /\ Max(TrackOf(F, t)) - Min(TrackOf(F, t)) >= MinLength
BY DEF Segment, TrackOf

\* What segment returns are tracks long enough, the last one open while the
\* merge gap after it has not passed.
LEMMA SegmentOK ==
    ASSUME NEW F \in SUBSET Instants, NEW now, NEW d \in Segment(F, now)
    PROVE  /\ DraftOK(F, d)
           /\ d.open = (d.end = Max(F) /\ now < d.end + MergeGap)
<1>1. PICK t \in F : /\ d = Draft(TrackOf(F, t), Max(TrackOf(F, t)) = Max(F)
                                                       /\ now < Max(TrackOf(F, t)) + MergeGap)
                     /\ Max(TrackOf(F, t)) - Min(TrackOf(F, t)) >= MinLength
  BY SegmentIs
<1> DEFINE T == TrackOf(F, t)
<1>2. IsTrack(F, T)
  BY TrackOK
<1>3. d.start = Min(T) /\ d.end = Max(T) /\ d.ids = T
      /\ d.open = (Max(T) = Max(F) /\ now < Max(T) + MergeGap)
  BY <1>1, DraftFields
<1>4. {Min(T), Max(T)} \subseteq Nat /\ Max(T) - Min(T) >= MinLength
  BY <1>1, <1>2, InstantsNat DEF IsTrack
<1>5. Min(T) < Max(T)
  BY <1>4, SessionFacts
<1>6. \E n \in T : Min(T) < n /\ n < Min(T) + MergeGap
  BY <1>5, TrackGoesOn
<1> HIDE DEF T
<1> QED BY <1>2, <1>3, <1>6 DEF DraftOK, IsTrack

\* Drafts do not overlap.
LEMMA SegmentApart ==
    ASSUME NEW F \in SUBSET Instants, NEW now, NEW d \in Segment(F, now),
           NEW e \in Segment(F, now), d # e, NEW u \in d.ids, NEW v \in e.ids
    PROVE  (d.start < e.start /\ u < v) \/ (e.start < d.start /\ v < u)
<1> DEFINE T(t) == TrackOf(F, t)
           D(t) == Draft(T(t), Max(T(t)) = Max(F) /\ now < Max(T(t)) + MergeGap)
<1>1. PICK t \in F : d = D(t)
  BY SegmentIs
<1>2. PICK w \in F : e = D(w)
  BY SegmentIs
<1>3. T(t) # T(w)
  BY <1>1, <1>2
<1>4. u \in T(t) /\ v \in T(w) /\ d.start = Min(T(t)) /\ e.start = Min(T(w))
  BY <1>1, <1>2, DraftFields
<1>5. IsTrack(F, T(t)) /\ IsTrack(F, T(w))
  BY TrackOK
<1>6. Min(T(t)) \in T(t) /\ Min(T(w)) \in T(w)
  BY <1>5 DEF IsTrack
<1>7. {t, w, u, v, d.start, e.start} \subseteq Nat
  BY <1>4, <1>5, <1>6, InstantsNat DEF IsTrack
<1> HIDE DEF T, D
<1>8. t # w
  BY <1>3
<1>9. CASE t < w
  <2>1. u < v /\ d.start < e.start
    BY <1>3, <1>4, <1>6, <1>9, TracksApart DEF T
  <2> QED BY <2>1
<1>10. CASE w < t
  <2>1. v < u /\ e.start < d.start
    BY <1>3, <1>4, <1>6, <1>10, TracksApart DEF T
  <2> QED BY <2>1, <1>7
<1> QED BY <1>7, <1>8, <1>9, <1>10

\* A draft of frames has a draft's type,
LEMMA DraftTyped ==
    ASSUME NEW T \in SUBSET Instants, T # {}, NEW key \in Apps, NEW open \in BOOLEAN
    PROVE  [start |-> Min(T), end |-> Max(T), key |-> key, ids |-> T, open |-> open] \in Drafts
<1>1. Min(T) \in T
  BY InstantsNat, MinOf
<1>2. Max(T) \in T
  BY InstantsNat, SessionFacts, MaxOf
<1> QED BY <1>1, <1>2, InstantsNat, Zenon DEF Drafts

\* and so has each that segment returns.
LEMMA SegmentTyped ==
    ASSUME shot \in [Instants -> Apps \cup {NoApp}], NEW F \in SUBSET Shots,
           NEW now, NEW d \in Segment(F, now)
    PROVE  d \in Drafts
<1>1. F \in SUBSET Instants
  BY DEF Shots
<1> DEFINE T(t) == TrackOf(F, t)
           open(t) == Max(T(t)) = Max(F) /\ now < Max(T(t)) + MergeGap
<1>2. PICK t \in F : d = Draft(T(t), open(t))
  BY <1>1, SegmentIs
<1>3. T(t) \in SUBSET F /\ T(t) # {}
  BY <1>1, TrackOK DEF IsTrack
<1> HIDE DEF T
<1>4. Dominant(T(t)) \in Apps
  BY <1>3, DominantOK
<1>5. open(t) \in BOOLEAN
  OBVIOUS
<1> HIDE DEF open
<1> QED BY <1>1, <1>2, <1>3, <1>4, <1>5, DraftTyped DEF Draft

\* The span of a draft is that of its frames.
Spans(d) ==
    /\ {d.start, d.end} \subseteq d.ids
    /\ \A t \in d.ids : d.start <= t /\ t <= d.end

\* A draft narrowed to some of its frames spans those.
LEMMA NarrowedOK ==
    ASSUME NEW d \in Drafts, NEW G \in SUBSET d.ids, G # {}
    PROVE  /\ Narrowed(d, G) \in Drafts /\ Spans(Narrowed(d, G))
           /\ Narrowed(d, G).ids = G /\ Narrowed(d, G).open = d.open
<1> DEFINE e == Narrowed(d, G)
<1>1. G \in SUBSET Instants
  BY DEF Drafts
<1>2. Min(G) \in G /\ \A k \in G : Min(G) <= k
  BY <1>1, InstantsNat, MinOf
<1>3. Max(G) \in G /\ \A k \in G : k <= Max(G)
  BY <1>1, InstantsNat, SessionFacts, MaxOf
<1>4. e.ids = G /\ e.start = Min(G) /\ e.end = Max(G) /\ e.open = d.open
  BY DEF Narrowed, Drafts
<1>5. e \in Drafts
  BY <1>1, <1>2, <1>3, InstantsNat, Zenon DEF Narrowed, Drafts
<1> QED BY <1>2, <1>3, <1>4, <1>5 DEF Spans

\* What is left of a draft's tail after the frozen rows it meets.
TailOf(d, frozen) == {t \in d.ids : \A r \in frozen : Overlaps(d, r) => t > session[r].end}
TailDraft(d, frozen) ==
    IF \A r \in frozen : ~Overlaps(d, r) THEN d ELSE Narrowed(d, TailOf(d, frozen))

\* trim_drafts_against_frozen leaves of each draft the frames after the frozen
\* rows it meets.
LEMMA TrimTailOK ==
    ASSUME NEW D, D \subseteq Drafts, \A d \in D : Spans(d),
           NEW frozen, NEW e \in TrimTail(D, frozen)
    PROVE  /\ e \in Drafts /\ Spans(e) /\ e.ids # {}
           /\ \E d \in D : e = TailDraft(d, frozen) /\ e.ids = TailOf(d, frozen) /\ e.open = d.open
<1> DEFINE met(d) == {session[r].end : r \in {s \in frozen : Overlaps(d, s)}}
           rest(d) == {t \in d.ids : \A x \in met(d) : t > x}
<1>1. PICK d \in D : rest(d) # {} /\ e = IF met(d) = {} THEN d ELSE Narrowed(d, rest(d))
  BY DEF TrimTail
<1>2. rest(d) = TailOf(d, frozen)
  BY DEF TailOf
<1>3. met(d) = {} <=> \A r \in frozen : ~Overlaps(d, r)
  OBVIOUS
<1>4. CASE met(d) = {}
  <2>1. rest(d) = d.ids /\ e = d
    BY <1>1, <1>4
  <2>2. e = TailDraft(d, frozen)
    BY <1>3, <1>4, <2>1 DEF TailDraft
  <2> HIDE DEF met, rest
  <2> QED BY <1>1, <1>2, <2>1, <2>2
<1>5. CASE met(d) # {}
  <2>1. rest(d) \in SUBSET d.ids /\ e = Narrowed(d, rest(d)) /\ d \in Drafts
    BY <1>1, <1>5
  <2> HIDE DEF met, rest
  <2>2. e \in Drafts /\ Spans(e) /\ e.ids = rest(d) /\ e.open = d.open
    BY <1>1, <2>1, NarrowedOK
  <2>3. e = TailDraft(d, frozen)
    BY <1>2, <1>3, <1>5, <2>1 DEF TailDraft
  <2> QED BY <1>1, <1>2, <2>2, <2>3
<1> QED BY <1>4, <1>5

-----------------------------------------------------------------------------
(* Types, and with them what rows, frames and calls have to do with each    *)
(* other.                                                                  *)

FrozenRows == {r \in Live : session[r].frozen}

ClockInv ==
    /\ FirstPass <= instant
    /\ pass.pc # "asleep" => pass.now = instant
    /\ \A t \in Shots : t <= instant
    /\ checkpoint.target # 0 => checkpoint.target + Lookback <= instant

\* A row that is there has a start, and an end unless it is open; a frozen one
\* ended before the horizon.
RowOK(r) ==
    /\ r \notin Live => session[r] = NoRow
    /\ r \in Live => /\ 1 <= session[r].start
                     /\ session[r].end # 0 => session[r].start <= session[r].end
    /\ r \in FrozenRows => session[r].end # 0 /\ session[r].end + Lookback < instant

RowsInv == \A r \in SessionRows : RowOK(r)

\* The calls that go on with a row that was written or looked up.
First == {"new", "assign", "add", "freeze", "confirm", "undo"}

\* A call has a draft with frames; the rows of an incremental pass are not frozen,
\* those of a chunk are there, and so is one that was just put.
CallOK(c) ==
    /\ c.op # "drop" => Spans(c.draft)
    /\ pass.pc = "incremental" => /\ c.op \in {"release", "drop", "put", "assign"}
                                  /\ c.op \in {"release", "drop"} => c.row # 0
                                  /\ c.row # 0 => ~session[c.row].frozen
                                  /\ c.op = "assign" => c.row \in Unfrozen
    /\ pass.pc = "backfill" => /\ c.op \in {"put", "own", "extend"} \cup First
                               /\ IF c.op = "put" THEN c.row = 0 ELSE c.row \in Live

CallsInv ==
    /\ \A c \in plan : CallOK(c)
    /\ \A c, d \in plan : c.op \in First /\ d.op \in First => c = d
    /\ plan # {} /\ pass.pc = "incremental" => pass.whole

TypeInv == SessionTypeOK /\ ClockInv /\ RowsInv /\ CallsInv

\* The types hold at the start.
LEMMA SessionInitType == SessionInit => TypeInv
<1> SUFFICES ASSUME SessionInit PROVE TypeInv
  OBVIOUS
<1> USE SessionFacts
<1>1. instant \in Instants /\ FirstPass <= instant
  BY DEF SessionInit, Instants
<1>2. shot \in [Instants -> Apps \cup {NoApp}] /\ \A t \in Shots : t <= instant
  <2>1. shot \in Histories
    BY DEF SessionInit
  <2>2. \A t \in Instants : ~(t <= FirstPass) => shot[t] = NoApp
    BY <2>1 DEF Histories
  <2> QED BY <2>1, <2>2, InstantsNat DEF Histories, SessionInit, Shots
<1>3. owner \in [Instants -> {0} \cup SessionRows] /\ \A t \in Instants : owner[t] = 0
  BY DEF SessionInit
<1>4. session \in [SessionRows -> Rows] /\ \A r \in SessionRows : session[r] = NoRow
  <2>1. NoRow \in Rows
    BY DEF NoRow, Rows
  <2> QED BY <2>1 DEF SessionInit
<1>5. checkpoint \in [cursor : 0..LastInstant, target : 0..LastInstant] /\ checkpoint.target = 0
  BY DEF SessionInit
<1>6. pass \in Passes /\ pass.pc = "asleep" /\ plan = {}
  BY DEF SessionInit, NoPass, Passes
<1>7. neglected = {} /\ torn = {} /\ upsets \in 0..MaxUpsets
  BY DEF SessionInit
<1>8. SessionTypeOK
  BY <1>1, <1>2, <1>3, <1>4, <1>5, <1>6, <1>7 DEF SessionTypeOK
<1>9. ClockInv /\ CallsInv
  BY <1>1, <1>2, <1>5, <1>6 DEF ClockInv, CallsInv
<1>10. RowsInv
  BY <1>4 DEF RowsInv, RowOK, Live, FrozenRows, NoRow
<1> QED BY <1>8, <1>9, <1>10 DEF TypeInv

\* Frames change hands: none of a frozen row's does.
LEMMA AssignedOK ==
    ASSUME TypeInv, NEW F, NEW r \in {0} \cup Live
    PROVE  /\ Assigned(F, r) \in [Instants -> {0} \cup SessionRows]
           /\ \A t \in Instants : Assigned(F, r)[t] # 0 => t \in Shots /\ Assigned(F, r)[t] \in Live
           /\ \A t \in Instants : owner[t] # 0 /\ session[owner[t]].frozen => Assigned(F, r)[t] = owner[t]
           /\ \A t \in Assignable(F) : t \in Instants /\ Assigned(F, r)[t] = r
           /\ \A t \in Instants : t \notin F => Assigned(F, r)[t] = owner[t]
<1>1. owner \in [Instants -> {0} \cup SessionRows] /\ Live \subseteq SessionRows
      /\ \A t \in Instants : owner[t] # 0 => t \in Shots /\ owner[t] \in Live
  BY DEF TypeInv, SessionTypeOK, Live
<1>2. Assignable(F) \subseteq F /\ Assignable(F) \subseteq Shots /\ Shots \subseteq Instants
      /\ \A t \in Assignable(F) : owner[t] = 0 \/ ~session[owner[t]].frozen
  BY DEF Assignable, Shots
<1> HIDE DEF Assignable
<1> QED BY <1>1, <1>2 DEF Assigned

\* delete_unfrozen_session removes the row and lets go of its frames, unless the
\* row is frozen.
LEMMA DeletedOK ==
    ASSUME TypeInv, NEW r \in SessionRows, Deleted(r)
    PROVE  /\ session' \in [SessionRows -> Rows]
           /\ owner' \in [Instants -> {0} \cup SessionRows]
           /\ \A t \in Instants : owner'[t] # 0 => t \in Shots /\ owner'[t] \in Live'
           /\ \A s \in SessionRows : s # r \/ session[s].frozen => session'[s] = session[s]
           /\ ~session[r].frozen => session'[r] = NoRow
           /\ \A t \in Instants : owner[t] # 0 /\ session[owner[t]].frozen => owner'[t] = owner[t]
<1>1. /\ owner \in [Instants -> {0} \cup SessionRows] /\ session \in [SessionRows -> Rows]
      /\ \A t \in Instants : owner[t] # 0 => t \in Shots /\ owner[t] \in Live
  BY DEF TypeInv, SessionTypeOK
<1>2. CASE session[r].frozen
  <2>1. session' = session /\ owner' = owner
    BY <1>2 DEF Deleted
  <2> QED BY <2>1, <1>1, <1>2 DEF Live
<1>3. CASE ~session[r].frozen
  <2>1. /\ session' = [session EXCEPT ![r] = NoRow]
        /\ owner' = [t \in Instants |-> IF owner[t] = r THEN 0 ELSE owner[t]]
    BY <1>3 DEF Deleted
  <2>2. NoRow \in Rows
    BY SessionFacts DEF NoRow, Rows
  <2>3. session' \in [SessionRows -> Rows] /\ session'[r] = NoRow
        /\ \A s \in SessionRows : s # r => session'[s] = session[s]
    BY <1>1, <2>1, <2>2
  <2>4. \A s \in Live : s # r => s \in Live'
    BY <2>3 DEF Live
  <2>5. owner' \in [Instants -> {0} \cup SessionRows]
        /\ \A t \in Instants : owner'[t] # 0 => t \in Shots /\ owner'[t] \in Live'
    BY <1>1, <2>1, <2>4, SessionFacts
  <2>6. \A t \in Instants : owner[t] # 0 /\ session[owner[t]].frozen => owner'[t] = owner[t]
    BY <1>3, <2>1
  <2> QED BY <1>3, <2>3, <2>5, <2>6
<1> QED BY <1>2, <1>3

\* What no step does: change a frozen row, take a frame from it, or bring back a
\* frame of the past.
Steady ==
    /\ \A r \in FrozenRows : session'[r] = session[r]
    /\ \A t \in Shots' : owner[t] # 0 /\ session[owner[t]].frozen => owner'[t] = owner[t]
    /\ \A t \in Shots' : t \in Shots \/ (pass.pc = "asleep" /\ t = instant + 1)

TurnFacts == DOMAIN Turn = First \cup {"release", "drop", "put", "own", "extend"}

\* Every kind of call has its turn.
LEMMA TurnOK == TurnFacts
BY DEF TurnFacts, Turn, First

\* While a row waits for its frames nothing else is next.
LEMMA AssignFirst ==
    ASSUME NEW c \in plan, NEW op, NextCall(op, c), op \in {"release", "drop", "put", "own", "extend"}
    PROVE  \A o \in plan : o.op \notin First
<1> SUFFICES ASSUME NEW o \in plan, o.op \in First PROVE FALSE
  OBVIOUS
<1>1. c.op = op /\ ~Before(o, c)
  BY DEF NextCall
<1>2. Turn[o.op] < Turn[c.op]
  BY <1>1 DEF Turn, First
<1> QED BY <1>1, <1>2 DEF Before

\* The parts of a call have their types,
LEMMA CallFields ==
    ASSUME NEW c \in Calls
    PROVE  /\ c.op \in First \cup {"release", "drop", "put", "own", "extend"}
           /\ c.row \in {0} \cup SessionRows /\ c.draft \in Drafts
BY TurnOK DEF Calls, TurnFacts

\* and a call is made of its parts.
LEMMA CallIs ==
    ASSUME NEW op \in First \cup {"release", "drop", "put", "own", "extend"},
           NEW r \in {0} \cup SessionRows, NEW d \in Drafts
    PROVE  /\ Call(op, r, d) \in Calls
           /\ Call(op, r, d).op = op /\ Call(op, r, d).row = r /\ Call(op, r, d).draft = d
<1>1. op \in DOMAIN Turn
  BY TurnOK DEF TurnFacts
<1> QED BY <1>1 DEF Call, Calls

\* The row written for a draft has its bounds; it has no end while the draft is open.
LEMMA RowOfOK ==
    ASSUME NEW d \in Drafts
    PROVE  /\ RowOf(d) \in Rows /\ RowOf(d).live /\ ~RowOf(d).frozen
           /\ RowOf(d).start = d.start
           /\ RowOf(d).end = IF d.open THEN 0 ELSE d.end
<1>1. d.start \in 0..LastInstant /\ d.end \in 0..LastInstant /\ d.key \in Apps \cup {NoApp}
      /\ 0 \in 0..LastInstant
  BY SessionFacts DEF Drafts
<1> QED BY <1>1 DEF RowOf, Rows

\* The new row's number is of no row there is.
LEMMA NextRowOK ==
    ASSUME TypeInv
    PROVE  NextRow \in Nat \ {0} /\ NextRow \notin Live
<1> DEFINE S == {0} \cup Live
<1>1. S \in SUBSET (0..MaxSessionRows) /\ S # {}
  BY SessionFacts DEF Live, SessionRows
<1> HIDE DEF S
<1>2. Max(S) \in S /\ \A k \in S : k <= Max(S)
  BY <1>1, SessionFacts, MaxOf
<1>3. NextRow = 1 + Max(S)
  BY DEF NextRow, S
<1>4. Max(S) \in Nat
  <2>1. Max(S) \in 0..MaxSessionRows
    BY <1>1, <1>2
  <2> QED BY <2>1, SessionFacts
<1>5. \A r \in Live : r \in S
  BY DEF S
<1> QED BY <1>2, <1>3, <1>4, <1>5

\* The parts of TypeInv after a step that leaves time, frames and rows alone.
LEMMA ReleaseType ==
    ASSUME TypeInv, NEW c \in plan, Release(c)
    PROVE  TypeInv' /\ Steady
<1> DEFINE F == OwnedBy(c.row) \ c.draft.ids
<1>1. /\ plan' = plan \ {c} /\ owner' = Assigned(F, 0)
      /\ UNCHANGED <<instant, shot, session, checkpoint, pass, neglected, torn, upsets>>
  BY DEF Release, Done
<1>2. /\ owner' \in [Instants -> {0} \cup SessionRows]
      /\ \A t \in Instants : owner'[t] # 0 => t \in Shots /\ owner'[t] \in Live
      /\ \A t \in Instants : owner[t] # 0 /\ session[owner[t]].frozen => owner'[t] = owner[t]
  <2> HIDE DEF F
  <2> QED BY <1>1, AssignedOK
<1>3. SessionTypeOK'
  BY <1>1, <1>2 DEF TypeInv, SessionTypeOK, Shots, Live
<1>4. ClockInv' /\ RowsInv' /\ CallsInv'
  BY <1>1 DEF TypeInv, ClockInv, RowsInv, RowOK, CallsInv, CallOK, Shots, Live, FrozenRows, Unfrozen, Spans
<1>5. Steady
  BY <1>1, <1>2 DEF Steady, Shots
<1> QED BY <1>3, <1>4, <1>5 DEF TypeInv

\* What each step leaves intact.  A drop removes one row;
LEMMA DropType ==
    ASSUME TypeInv, NEW c \in plan, Drop(c)
    PROVE  TypeInv' /\ Steady /\ pass.pc = "incremental" /\ c.row \in SessionRows
           /\ session'[c.row] = NoRow
           /\ \A s \in SessionRows : s # c.row => session'[s] = session[s]
<1>1. /\ plan' = plan \ {c} /\ Deleted(c.row) /\ NextCall("drop", c)
      /\ UNCHANGED <<instant, shot, checkpoint, pass, neglected, torn, upsets>>
  BY DEF Drop, Done
<1>2. c.op = "drop" /\ c \in Calls /\ pass.pc \in {"incremental", "backfill"}
  BY <1>1 DEF NextCall, TypeInv, SessionTypeOK
<1>3. pass.pc = "incremental" /\ c.row # 0 /\ ~session[c.row].frozen
  BY <1>2 DEF TypeInv, CallsInv, CallOK, First
<1>4. c.row \in SessionRows
  BY <1>2, <1>3, CallFields
<1>5. /\ session' \in [SessionRows -> Rows]
      /\ owner' \in [Instants -> {0} \cup SessionRows]
      /\ \A t \in Instants : owner'[t] # 0 => t \in Shots /\ owner'[t] \in Live'
      /\ \A s \in SessionRows : s # c.row => session'[s] = session[s]
      /\ session'[c.row] = NoRow
      /\ \A t \in Instants : owner[t] # 0 /\ session[owner[t]].frozen => owner'[t] = owner[t]
  BY <1>1, <1>3, <1>4, DeletedOK
<1>6. \A o \in plan : o.op \notin First /\ o.row \in {0} \cup SessionRows
  BY <1>1, AssignFirst, CallFields DEF TypeInv, SessionTypeOK
<1>7. SessionTypeOK'
  BY <1>1, <1>5 DEF TypeInv, SessionTypeOK, Shots
<1>8. ClockInv'
  BY <1>1 DEF TypeInv, ClockInv, Shots
<1>9. RowsInv'
  BY <1>1, <1>4, <1>5 DEF TypeInv, RowsInv, RowOK, Live, FrozenRows, NoRow
<1>10. CallsInv'
  <2>1. \A s \in SessionRows : ~session[s].frozen => ~session'[s].frozen
    BY <1>5 DEF NoRow
  <2>2. ASSUME NEW o \in plan PROVE CallOK(o)'
    BY <1>1, <1>3, <1>6, <2>1 DEF TypeInv, CallsInv, CallOK, Spans, First
  <2> QED BY <1>1, <2>2 DEF TypeInv, CallsInv
<1>11. Steady
  BY <1>1, <1>3, <1>5 DEF Steady, Shots, FrozenRows, Live
<1> QED BY <1>3, <1>4, <1>5, <1>7, <1>8, <1>9, <1>10, <1>11 DEF TypeInv

PutOp == IF pass.pc = "incremental" THEN "assign" ELSE "new"

\* a put writes the draft's row, new or reused, and its frames come next;
LEMMA PutType ==
    ASSUME TypeInv, NEW c \in plan, Put(c)
    PROVE  /\ TypeInv' /\ Steady
           /\ \E r \in SessionRows :
                 /\ r = (IF c.row = 0 THEN NextRow ELSE c.row)
                 /\ ~session[r].frozen
                 /\ session' = [session EXCEPT ![r] = RowOf(c.draft)]
                 /\ plan' = (plan \ {c}) \cup {Call(PutOp, r, c.draft)}
<1> DEFINE r == IF c.row = 0 THEN NextRow ELSE c.row
           a == Call(PutOp, r, c.draft)
<1>1. /\ NextCall("put", c) /\ r <= MaxSessionRows
      /\ session' = [session EXCEPT ![r] = RowOf(c.draft)]
      /\ plan' = (plan \ {c}) \cup {a}
      /\ UNCHANGED <<instant, shot, owner, checkpoint, pass, neglected, torn, upsets>>
  BY DEF Put, PutOp
<1>2. /\ c.op = "put" /\ c \in Calls /\ pass.pc \in {"incremental", "backfill"}
      /\ session \in [SessionRows -> Rows]
  BY <1>1 DEF NextCall, TypeInv, SessionTypeOK
<1>3. c.row \in {0} \cup SessionRows /\ c.draft \in Drafts
  BY <1>2, CallFields
<1>4. r \in SessionRows /\ (c.row = 0 => r \notin Live)
  BY <1>1, <1>3, NextRowOK, SessionFacts DEF SessionRows
<1>5. ~session[r].frozen
  <2>1. CASE c.row = 0
    <3>1. session[r] = NoRow
      BY <2>1, <1>4 DEF TypeInv, RowsInv, RowOK
    <3> QED BY <3>1 DEF NoRow
  <2>2. CASE c.row # 0
    BY <2>2, <1>2 DEF TypeInv, CallsInv, CallOK
  <2> QED BY <2>1, <2>2
<1>6. a \in Calls /\ a.op = PutOp /\ a.op \in First /\ a.row = r /\ a.draft = c.draft
  <2>1. PutOp \in First
    BY DEF PutOp, First
  <2> QED BY <1>3, <1>4, <2>1, CallIs
<1> HIDE DEF r, a
<1>7. /\ RowOf(c.draft) \in Rows /\ RowOf(c.draft).live /\ ~RowOf(c.draft).frozen
      /\ RowOf(c.draft).start = c.draft.start
      /\ RowOf(c.draft).end = IF c.draft.open THEN 0 ELSE c.draft.end
  BY <1>3, RowOfOK
<1>8. /\ session' \in [SessionRows -> Rows] /\ session'[r] = RowOf(c.draft)
      /\ \A s \in SessionRows : s # r => session'[s] = session[s]
  BY <1>1, <1>2, <1>4, <1>7
<1>9. Live' = Live \cup {r} /\ FrozenRows' = FrozenRows /\ Live \subseteq SessionRows
  BY <1>4, <1>5, <1>7, <1>8 DEF Live, FrozenRows
<1>10. \A o \in plan : o.op \notin First /\ o.row \in {0} \cup SessionRows
  BY <1>1, AssignFirst, CallFields DEF TypeInv, SessionTypeOK
<1>11. SessionTypeOK'
  BY <1>1, <1>2, <1>6, <1>8, <1>9 DEF TypeInv, SessionTypeOK, Shots
<1>12. ClockInv'
  BY <1>1 DEF TypeInv, ClockInv, Shots
<1>13. Spans(c.draft) /\ 1 <= c.draft.start /\ c.draft.start <= c.draft.end
  <2>1. Spans(c.draft)
    BY <1>2 DEF TypeInv, CallsInv, CallOK
  <2>2. c.draft.ids \subseteq Instants
    BY <1>3 DEF Drafts
  <2> QED BY <2>1, <2>2, SessionFacts DEF Spans, Instants
<1>14. RowsInv'
  <2>1. ASSUME NEW s \in SessionRows PROVE RowOK(s)'
    <3>1. CASE s # r
      BY <3>1, <1>1, <1>8, <1>9 DEF TypeInv, RowsInv, RowOK
    <3>2. CASE s = r
      <4>1. r \notin FrozenRows /\ r \in Live'
        BY <1>5, <1>9 DEF FrozenRows
      <4> QED BY <3>2, <4>1, <1>7, <1>8, <1>9, <1>13 DEF RowOK
    <3> QED BY <3>1, <3>2
  <2> QED BY <2>1 DEF RowsInv
<1>15. CallsInv'
  <2>1. \A s \in SessionRows : ~session[s].frozen => ~session'[s].frozen
    BY <1>7, <1>8
  <2>2. ASSUME NEW o \in plan PROVE CallOK(o)'
    BY <1>1, <1>2, <1>9, <1>10, <2>1 DEF TypeInv, CallsInv, CallOK, Spans, First
  <2>3. ASSUME NEW o, o = a PROVE CallOK(o)'
    BY <2>3, <1>1, <1>2, <1>6, <1>7, <1>8, <1>9, <1>13
       DEF CallOK, Unfrozen, Spans, SessionRows, PutOp
  <2>4. \A o, q \in plan' : o.op \in First /\ q.op \in First => o = q
    BY <1>1, <1>10
  <2> QED BY <1>1, <2>2, <2>3, <2>4 DEF TypeInv, CallsInv
<1>16. Steady
  BY <1>1, <1>5, <1>8 DEF Steady, Shots, FrozenRows, Live
<1>17. TypeInv' /\ Steady
  BY <1>11, <1>12, <1>14, <1>15, <1>16 DEF TypeInv
<1> QED BY <1>1, <1>4, <1>5, <1>17 DEF r, a

\* assign_frames_to_session;
LEMMA AssignType ==
    ASSUME TypeInv, NEW c \in plan, Assign(c)
    PROVE  TypeInv' /\ Steady
<1> DEFINE F == c.draft.ids \ pass.owned[c.row]
<1>1. /\ plan' = plan \ {c} /\ owner' = Assigned(F, c.row) /\ NextCall("assign", c)
      /\ neglected' \subseteq neglected \cup Shots
      /\ UNCHANGED <<instant, shot, session, checkpoint, pass, torn, upsets>>
  BY DEF Assign, Done
<1>2. c.row \in {0} \cup Live
  BY <1>1 DEF Assign, NextCall, TypeInv, CallsInv, CallOK, Unfrozen
<1>3. /\ owner' \in [Instants -> {0} \cup SessionRows]
      /\ \A t \in Instants : owner'[t] # 0 => t \in Shots /\ owner'[t] \in Live
      /\ \A t \in Instants : owner[t] # 0 /\ session[owner[t]].frozen => owner'[t] = owner[t]
  <2> HIDE DEF F
  <2>1. /\ Assigned(F, c.row) \in [Instants -> {0} \cup SessionRows]
        /\ \A t \in Instants : Assigned(F, c.row)[t] # 0 =>
              t \in Shots /\ Assigned(F, c.row)[t] \in Live
        /\ \A t \in Instants : owner[t] # 0 /\ session[owner[t]].frozen =>
              Assigned(F, c.row)[t] = owner[t]
    <3> DEFINE row == c.row
    <3>1. row \in {0} \cup Live
      BY <1>2
    <3> HIDE DEF row
    <3>2. /\ Assigned(F, row) \in [Instants -> {0} \cup SessionRows]
          /\ \A t \in Instants : Assigned(F, row)[t] # 0 =>
                t \in Shots /\ Assigned(F, row)[t] \in Live
          /\ \A t \in Instants : owner[t] # 0 /\ session[owner[t]].frozen =>
                Assigned(F, row)[t] = owner[t]
      BY <3>1, AssignedOK
    <3> QED BY <3>2 DEF row
  <2> QED BY <1>1, <2>1
<1>4. SessionTypeOK'
  BY <1>1, <1>3 DEF TypeInv, SessionTypeOK, Shots, Live
<1>5. ClockInv' /\ RowsInv' /\ CallsInv'
  BY <1>1 DEF TypeInv, ClockInv, RowsInv, RowOK, CallsInv, CallOK, Shots, Live, FrozenRows, Unfrozen, Spans
<1>6. Steady
  BY <1>1, <1>3 DEF Steady, Shots
<1> QED BY <1>4, <1>5, <1>6 DEF TypeInv

\* What freezing does to the rows.
LEMMA FrozenOK ==
    ASSUME TypeInv, pass.now = instant, session' = Frozen(pass.now)
    PROVE  /\ session' \in [SessionRows -> Rows]
           /\ \A r \in SessionRows :
                 /\ session'[r].live = session[r].live /\ session'[r].start = session[r].start
                 /\ session'[r].end = session[r].end
                 /\ session'[r].frozen = (session[r].frozen \/ (/\ session[r].live /\ session[r].end # 0
                                                              /\ session[r].end + Lookback < pass.now))
                 /\ session'[r] # session[r] => session'[r].frozen /\ ~session[r].frozen
<1>1. session \in [SessionRows -> Rows]
  BY DEF TypeInv, SessionTypeOK
<1>2. ASSUME NEW r \in SessionRows
      PROVE  /\ session'[r] \in Rows
             /\ session'[r].live = session[r].live /\ session'[r].start = session[r].start
             /\ session'[r].end = session[r].end
             /\ session'[r].frozen = (session[r].frozen \/ (/\ session[r].live /\ session[r].end # 0
                                                          /\ session[r].end + Lookback < pass.now))
             /\ session'[r] # session[r] => session'[r].frozen /\ ~session[r].frozen
  <2> DEFINE due == session[r].live /\ session[r].end # 0 /\ session[r].end + Lookback < pass.now
             x == [session[r] EXCEPT !.frozen = TRUE]
  <2>1. session'[r] = IF due THEN x ELSE session[r]
    BY DEF Frozen
  <2>2. session[r] \in Rows
    BY <1>1
  <2>3. /\ x \in Rows /\ x.live = session[r].live /\ x.start = session[r].start
        /\ x.end = session[r].end /\ x.frozen = TRUE
    BY <2>2 DEF Rows
  <2>4. session[r].frozen => x = session[r]
    BY <2>2 DEF Rows
  <2>5. session[r].frozen \in BOOLEAN
    BY <2>2 DEF Rows
  <2> HIDE DEF x
  <2> QED BY <2>1, <2>2, <2>3, <2>4, <2>5
<1>3. session' = [r \in SessionRows |-> session'[r]]
  BY DEF Frozen
<1> QED BY <1>2, <1>3

\* Freezing keeps the rows and calls in order.
LEMMA FreezesType ==
    ASSUME TypeInv, pass.now = instant, session' = Frozen(pass.now), instant' = instant
    PROVE  /\ session' \in [SessionRows -> Rows] /\ RowsInv' /\ Live' = Live
           /\ \A r \in FrozenRows : session'[r] = session[r]
<1>1. /\ session' \in [SessionRows -> Rows]
      /\ \A r \in SessionRows :
                 /\ session'[r].live = session[r].live /\ session'[r].start = session[r].start
                 /\ session'[r].end = session[r].end
                 /\ session'[r].frozen = (session[r].frozen \/ (/\ session[r].live /\ session[r].end # 0
                                                              /\ session[r].end + Lookback < pass.now))
                 /\ session'[r] # session[r] => session'[r].frozen /\ ~session[r].frozen
  BY FrozenOK
<1>2. Live' = Live
  BY <1>1 DEF Live
<1>3. ASSUME NEW r \in SessionRows PROVE RowOK(r)'
  <2>1. RowOK(r)
    BY DEF TypeInv, RowsInv
  <2>2. CASE r \notin Live
    <3>1. ~session[r].live /\ session[r] = NoRow
      BY <2>1, <2>2 DEF RowOK, Live
    <3>2. ~session'[r].frozen
      <4>1. session[r].frozen = FALSE /\ session[r].live = FALSE
        BY <3>1 DEF NoRow
      <4>2. session'[r].frozen = (FALSE \/ (FALSE /\ session[r].end # 0 /\ session[r].end + Lookback < pass.now))
        BY <1>1, <4>1
      <4> QED BY <4>2
    <3>3. session'[r] = session[r]
      BY <1>1, <3>2
    <3> QED BY <1>2, <2>2, <3>1, <3>3, <3>2 DEF RowOK, FrozenRows
  <2>3. CASE r \in Live
    BY <1>1, <1>2, <2>1, <2>3 DEF RowOK, FrozenRows
  <2> QED BY <2>2, <2>3
<1> QED BY <1>1, <1>2, <1>3 DEF RowsInv, FrozenRows, Live

\* the end of the incremental part;
LEMMA PassFreezesType ==
    ASSUME TypeInv, PassFreezes
    PROVE  TypeInv' /\ Steady
<1>1. /\ pass.pc = "incremental" /\ plan = {} /\ pass' = [pass EXCEPT !.pc = "freeze"]
      /\ UNCHANGED <<instant, shot, owner, session, checkpoint, plan, neglected, torn, upsets>>
  BY DEF PassFreezes
<1>2. pass' \in Passes /\ pass'.pc = "freeze" /\ pass'.now = pass.now
  BY <1>1 DEF TypeInv, SessionTypeOK, Passes
<1>3. SessionTypeOK'
  BY <1>1, <1>2 DEF TypeInv, SessionTypeOK, Shots, Live
<1>4. ClockInv' /\ RowsInv' /\ CallsInv'
  BY <1>1, <1>2 DEF TypeInv, ClockInv, RowsInv, RowOK, CallsInv, Shots, Live, FrozenRows
<1>5. Steady
  BY <1>1 DEF Steady, Shots
<1> QED BY <1>3, <1>4, <1>5 DEF TypeInv

\* (between two passes no part is under way)
LEMMA NoPassIs == NoPass \in Passes /\ NoPass.pc = "asleep"
BY SessionFacts DEF Passes, NoPass

\* freeze_sessions;
LEMMA FreezeType ==
    ASSUME TypeInv, NEW throttled \in BOOLEAN, Freeze(throttled)
    PROVE  TypeInv' /\ Steady
<1>1. PICK ok \in BOOLEAN :
        /\ \/ ok /\ Freezes /\ UNCHANGED upsets
           \/ ~ok /\ Upset /\ UNCHANGED <<session, torn>>
        /\ pass' = IF throttled THEN NoPass
                   ELSE [pass EXCEPT !.pc = "open", !.whole = @ /\ ok]
  BY DEF Freeze
<1>2. /\ pass.pc = "freeze" /\ UNCHANGED <<instant, shot, owner, checkpoint, plan, neglected>>
  BY DEF Freeze
<1>3. plan = {} /\ pass.now = instant /\ pass \in Passes
  BY <1>2 DEF TypeInv, SessionTypeOK, ClockInv
<1>4. pass' \in Passes /\ pass'.pc \in {"asleep", "open"} /\ (pass'.pc # "asleep" => pass'.now = pass.now)
  <2>1. (pass.whole /\ ok) \in BOOLEAN
    BY <1>3 DEF Passes
  <2>2. CASE throttled
    BY <1>1, <2>2, NoPassIs
  <2>3. CASE ~throttled
    <3>1. pass' = [pass EXCEPT !.pc = "open", !.whole = pass.whole /\ ok]
      BY <1>1, <1>3, <2>3 DEF Passes
    <3> DEFINE w == pass.whole /\ ok
    <3>2. w \in BOOLEAN /\ pass' = [pass EXCEPT !.pc = "open", !.whole = w]
      BY <2>1, <3>1
    <3> HIDE DEF w
    <3>3. pass' \in Passes /\ pass'.pc = "open" /\ pass'.now = pass.now
      BY <1>3, <3>2 DEF Passes
    <3> QED BY <3>3
  <2> QED BY <2>2, <2>3
<1>5. /\ session' \in [SessionRows -> Rows] /\ RowsInv' /\ Live' = Live
      /\ \A r \in FrozenRows : session'[r] = session[r]
  <2>1. CASE UNCHANGED session
    BY <1>2, <2>1 DEF TypeInv, SessionTypeOK, RowsInv, RowOK, Live, FrozenRows
  <2>2. CASE session' = Frozen(pass.now)
    BY <1>2, <1>3, <2>2, FreezesType
  <2> QED BY <1>1, <2>1, <2>2 DEF Freezes
<1>6. torn' \subseteq SessionRows /\ upsets' \in 0..MaxUpsets
  <2>1. torn \subseteq SessionRows /\ upsets \in 0..MaxUpsets
    BY DEF TypeInv, SessionTypeOK
  <2> QED BY <1>1, <2>1, SessionFacts DEF Freezes, Upset
<1>7. SessionTypeOK'
  BY <1>2, <1>3, <1>4, <1>5, <1>6 DEF TypeInv, SessionTypeOK, Shots
<1>8. ClockInv' /\ CallsInv'
  BY <1>2, <1>3, <1>4 DEF TypeInv, ClockInv, CallsInv, Shots
<1>9. Steady
  BY <1>2, <1>5 DEF Steady, Shots
<1> QED BY <1>5, <1>7, <1>8, <1>9 DEF TypeInv

-----------------------------------------------------------------------------
(* Where a chunk ends and what is done about it. *)

\* What frames_meta_in_range returns are frames.
LEMMA BetweenOK ==
    ASSUME NEW a, NEW b
    PROVE  Between(a, b) \subseteq Shots /\ Between(a, b) \in SUBSET Instants
BY DEF Between, Shots

\* Min, of the community modules, of two numbers.
LEMMA MinOfTwo ==
    ASSUME NEW a \in Nat, NEW b \in Nat
    PROVE  Min({a, b}) = IF a <= b THEN a ELSE b
<1>1. Min({a, b}) \in {a, b} /\ \A k \in {a, b} : Min({a, b}) <= k
  BY MinOf
<1> QED BY <1>1

Breaks(F, desired) == {b \in F : b >= desired /\ (\E a \in F : a < b)
                                  /\ \A a \in F : a < b => b - a >= MergeGap}

\* safe_backfill_cut: a break between tracks behind the wanted end, or that end
\* when everything lies a merge gap before it.
LEMMA SafeCutOK ==
    ASSUME NEW F \in SUBSET Instants, NEW desired \in Nat, NEW limit \in Nat
    PROVE  /\ SafeCut(F, desired, limit) \in Nat /\ SafeCut(F, desired, limit) <= limit
           /\ F = {} => SafeCut(F, desired, limit) <= desired
           /\ F # {} /\ SafeCut(F, desired, limit) # 0 =>
                 \/ \E b \in Breaks(F, desired) : SafeCut(F, desired, limit) = IF b < limit THEN b ELSE limit
                 \/ /\ \A t \in F : t + MergeGap <= desired
                    /\ SafeCut(F, desired, limit) = IF desired < limit THEN desired ELSE limit
<1> DEFINE upto(b) == IF b < limit THEN b ELSE limit
           B == Breaks(F, desired)
           cut == SafeCut(F, desired, limit)
<1>1. cut = IF F = {} THEN upto(desired)
            ELSE IF B # {} THEN upto(Min(B))
            ELSE IF desired >= Max(F) + MergeGap THEN upto(desired) ELSE 0
  BY DEF SafeCut, Breaks
<1>2. CASE F = {}
  BY <1>1, <1>2
<1>3. CASE F # {} /\ B # {}
  <2>1. B \in SUBSET F
    BY DEF Breaks
  <2> HIDE DEF B
  <2>2. Min(B) \in B /\ Min(B) \in Nat
    BY <1>3, <2>1, InstantsNat, MinOf
  <2>3. cut = upto(Min(B))
    BY <1>1, <1>3
  <2> QED BY <1>3, <2>2, <2>3 DEF B
<1>4. CASE F # {} /\ B = {}
  <2>1. Max(F) \in F /\ \A k \in F : k <= Max(F)
    BY <1>4, InstantsNat, SessionFacts, MaxOf
  <2>2. Max(F) \in Nat /\ F \subseteq Nat
    BY <2>1, InstantsNat
  <2>3. CASE desired >= Max(F) + MergeGap
    <3>1. cut = upto(desired)
      BY <1>1, <1>4, <2>3
    <3>2. ASSUME NEW t \in F PROVE t + MergeGap <= desired
      BY <2>1, <2>2, <2>3, SessionFacts
    <3> QED BY <1>4, <3>1, <3>2
  <2>4. CASE ~(desired >= Max(F) + MergeGap)
    BY <1>1, <1>4, <2>4
  <2> QED BY <2>3, <2>4
<1> QED BY <1>2, <1>3, <1>4

\* A number does not get smaller by being multiplied.
LEMMA TimesMore ==
    ASSUME NEW a \in Nat, NEW b \in Nat, 1 <= b
    PROVE  a * b \in Nat /\ a <= a * b
OBVIOUS

\* The scan goes beyond the wanted end, unless it reaches the limit.
LEMMA ScanEndOK ==
    ASSUME NEW cursor \in Nat, NEW desired \in Nat, NEW limit \in 0..LastInstant
    PROVE  /\ ScanEnd(cursor, desired, limit) \in Nat
           /\ ScanEnd(cursor, desired, limit) <= limit
           /\ ScanEnd(cursor, desired, limit) = limit \/ desired < ScanEnd(cursor, desired, limit)
<1> DEFINE scan(k) == desired + MergeGap + k * ChunkLength
           ends == {Min({scan(k), limit}) : k \in 0..LastInstant}
           S == {e \in ends : e >= limit \/ SafeCut(Between(cursor, e), desired, limit) # 0}
<1>1. ScanEnd(cursor, desired, limit) = Min(S)
  BY DEF ScanEnd
<1>2. ASSUME NEW k \in 0..LastInstant
      PROVE  /\ scan(k) \in Nat /\ desired < scan(k) /\ k <= scan(k)
             /\ Min({scan(k), limit}) = IF scan(k) <= limit THEN scan(k) ELSE limit
  <2>1. k \in Nat /\ k * ChunkLength \in Nat /\ k <= k * ChunkLength
    BY SessionFacts, TimesMore
  <2>2. scan(k) \in Nat /\ desired < scan(k) /\ k <= scan(k)
    BY <2>1, SessionFacts
  <2> HIDE DEF scan
  <2> QED BY <2>2, MinOfTwo
<1>3. \A e \in ends : e \in Nat /\ e <= limit /\ (e = limit \/ desired < e)
  <2>1. SUFFICES ASSUME NEW k \in 0..LastInstant
                 PROVE  LET e == Min({scan(k), limit})
                        IN e \in Nat /\ e <= limit /\ (e = limit \/ desired < e)
    OBVIOUS
  <2> HIDE DEF scan
  <2> QED BY <1>2
<1>4. S \in SUBSET Nat /\ S # {}
  <2>1. LastInstant \in 0..LastInstant
    BY SessionFacts
  <2>2. Min({scan(LastInstant), limit}) = limit
    <3>1. scan(LastInstant) \in Nat /\ LastInstant <= scan(LastInstant)
          /\ Min({scan(LastInstant), limit}) = IF scan(LastInstant) <= limit THEN scan(LastInstant) ELSE limit
      BY <1>2, <2>1
    <3> HIDE DEF scan
    <3> QED BY <3>1, SessionFacts
  <2>3. limit \in ends
    BY <2>1, <2>2
  <2> HIDE DEF ends
  <2> QED BY <1>3, <2>3
<1> HIDE DEF ends
<1>5. Min(S) \in S
  <2> HIDE DEF S
  <2> QED BY <1>4, MinOf
<1> QED BY <1>1, <1>3, <1>5

\* The rows run_backfill_chunk reads.
Existing(cursor, cut, now) ==
    {r \in Live : /\ session[r].start < cut
                  /\ IF session[r].end = 0 THEN now > cursor ELSE session[r].end > cursor}

\* What is left of a draft's head before the frozen ones of the rows.
HeadOf(d, rows) ==
    {t \in d.ids : \A r \in rows : session[r].frozen /\ Overlaps(d, r) => t < session[r].start}

\* A call of a backfill chunk owns the frames of a row that already ends like its
\* draft, or puts what the rows it meets leave of it.
LEMMA BackfillCallIs ==
    ASSUME NEW F, NEW cursor, NEW cut, NEW now,
           NEW c \in BackfillCalls(F, cursor, cut, now)
    PROVE  \E d \in Segment(F, cut + MergeGap) :
             \/ \E r \in Existing(cursor, cut, now) :
                   /\ session[r].end = d.end
                   /\ c = Call(IF session[r].frozen THEN "extend" ELSE "own", r, d)
             \/ /\ HeadOf(d, Existing(cursor, cut, now)) # {}
                /\ c = Call("put", 0, Narrowed(d, HeadOf(d, Existing(cursor, cut, now))))
<1> DEFINE existing == Existing(cursor, cut, now)
           same(d) == {r \in existing : session[r].key = d.key /\ session[r].start = d.start
                                       /\ session[r].end = d.end}
           rest(d) == TrimHead(d, {r \in existing : session[r].frozen})
           D == IF F = {} THEN {} ELSE Segment(F, cut + MergeGap)
           known == {d \in D : same(d) # {}}
           row(d) == Max(same(d))
<1>1. \/ \E d \in known : c = Call(IF session[row(d)].frozen THEN "extend" ELSE "own", row(d), d)
      \/ \E d \in D \ known : rest(d) # {} /\ c = Call("put", 0, Narrowed(d, rest(d)))
  BY DEF BackfillCalls, Existing
<1>2. ASSUME NEW d PROVE rest(d) = HeadOf(d, existing)
  BY DEF TrimHead, HeadOf
<1>3. ASSUME NEW d \in known PROVE row(d) \in same(d)
  <2>1. same(d) \in SUBSET (0..MaxSessionRows) /\ same(d) # {}
    BY SessionFacts DEF Existing, Live, SessionRows
  <2> HIDE DEF same
  <2> QED BY <2>1, SessionFacts, MaxOf
<1>4. D \subseteq Segment(F, cut + MergeGap)
  OBVIOUS
<1> HIDE DEF D
<1>5. CASE \E d \in known : c = Call(IF session[row(d)].frozen THEN "extend" ELSE "own", row(d), d)
  BY <1>3, <1>4, <1>5
<1>6. CASE \E d \in D \ known : rest(d) # {} /\ c = Call("put", 0, Narrowed(d, rest(d)))
  <2> HIDE DEF rest, known, existing
  <2> QED BY <1>2, <1>4, <1>6 DEF existing
<1> QED BY <1>1, <1>5, <1>6

\* No session goes on over the end of a chunk: a frame of the chunk and one after
\* it are the gap apart.
CutIsSafe(cursor, cut) ==
    \A t, u \in Shots : cursor <= t /\ t < cut /\ cut <= u => t + MergeGap <= u

\* No track is cut in two by the end of a chunk.
LEMMA SafeCutIsSafe ==
    ASSUME NEW cursor \in Nat, NEW desired \in Nat, NEW limit \in 0..LastInstant, desired <= limit,
           NEW far, far = ScanEnd(cursor, desired, limit),
           NEW cut, cut = SafeCut(Between(cursor, far), desired, limit), cut # 0
    PROVE  cut \in Nat /\ cut <= limit /\ CutIsSafe(cursor, cut)
<1> DEFINE F == Between(cursor, far)
<1>1. far \in Nat /\ far <= limit /\ (far = limit \/ desired < far) /\ limit \in Nat
  BY ScanEndOK, SessionFacts
<1>2. F \in SUBSET Instants /\ F \in SUBSET Nat /\ Shots \subseteq Nat
  BY BetweenOK, InstantsNat DEF Shots
<1>3. /\ cut \in Nat /\ cut <= limit
      /\ F = {} => cut <= desired
      /\ F # {} =>
            \/ \E b \in Breaks(F, desired) : cut = IF b < limit THEN b ELSE limit
            \/ /\ \A t \in F : t + MergeGap <= desired
               /\ cut = IF desired < limit THEN desired ELSE limit
  <2> HIDE DEF F
  <2>1. cut = SafeCut(F, desired, limit)
    BY DEF F
  <2> QED BY <1>1, <1>2, <2>1, SafeCutOK
<1>4. ASSUME NEW t \in Shots, NEW u \in Shots, cursor <= t, t < cut, cut <= u
      PROVE  t + MergeGap <= u
  <2>1. cut <= far
    <3>1. CASE F = {}
      BY <3>1, <1>1, <1>3
    <3>2. ASSUME NEW b \in Breaks(F, desired), cut = IF b < limit THEN b ELSE limit
          PROVE  cut <= far
      <4>1. b \in F
        BY DEF Breaks
      <4>2. b \in Nat /\ b < far
        BY <4>1, <1>2 DEF Between
      <4> QED BY <3>2, <4>2, <1>1
    <3>3. CASE cut = IF desired < limit THEN desired ELSE limit
      BY <3>3, <1>1
    <3> QED BY <1>3, <3>1, <3>2, <3>3
  <2>2. t \in F /\ t \in Nat /\ u \in Nat
    BY <1>1, <1>2, <1>3, <1>4, <2>1 DEF Between
  <2>3. ASSUME NEW b \in Breaks(F, desired), cut = IF b < limit THEN b ELSE limit
        PROVE  t + MergeGap <= u
    <3>1. b \in F /\ \A a \in F : a < b => b - a >= MergeGap
      BY DEF Breaks
    <3>2. b \in Nat /\ b < far
      BY <3>1, <1>2 DEF Between
    <3>3. cut = b
      BY <2>3, <3>2, <1>1
    <3>4. b - t >= MergeGap
      BY <3>1, <3>3, <2>2, <1>4
    <3> QED BY <3>2, <3>3, <3>4, <2>2, <1>4, SessionFacts
  <2>4. CASE (\A a \in F : a + MergeGap <= desired) /\ cut = IF desired < limit THEN desired ELSE limit
    <3>1. t + MergeGap <= desired /\ cut = desired
      BY <2>2, <2>4, <1>1
    <3> QED BY <3>1, <2>2, <1>4, SessionFacts
  <2> QED BY <1>3, <2>2, <2>3, <2>4
<1> QED BY <1>3, <1>4 DEF CutIsSafe

\* It ends after it begins.
LEMMA SafeCutAfter ==
    ASSUME NEW cursor \in Nat, NEW desired \in Nat, NEW limit \in Nat, NEW far,
           cursor <= desired, cursor <= limit,
           SafeCut(Between(cursor, far), desired, limit) # 0
    PROVE  cursor <= SafeCut(Between(cursor, far), desired, limit)
<1> DEFINE F == Between(cursor, far)
           cut == SafeCut(F, desired, limit)
           upto(b) == IF b < limit THEN b ELSE limit
           B == Breaks(F, desired)
<1>1. cut = IF F = {} THEN upto(desired)
            ELSE IF B # {} THEN upto(Min(B))
            ELSE IF desired >= Max(F) + MergeGap THEN upto(desired) ELSE 0
  BY DEF SafeCut, Breaks
<1>2. cursor <= upto(desired)
  OBVIOUS
<1>3. ASSUME B # {} PROVE cursor <= upto(Min(B))
  <2>1. B \in SUBSET Nat
    BY BetweenOK, InstantsNat DEF Breaks
  <2>2. Min(B) \in B
    <3> HIDE DEF B
    <3> QED BY <1>3, <2>1, MinOf
  <2>3. cursor <= Min(B) /\ Min(B) \in Nat
    BY <2>1, <2>2 DEF Breaks, Between
  <2> QED BY <2>3
<1> HIDE DEF F, B, upto
<1> QED BY <1>1, <1>2, <1>3 DEF F

\* What opening a backfill chunk does: it reads the cursor (or begins at the first
\* frame), and either there is nothing to do or a chunk up to a safe cut.
LEMMA OpensIs ==
    ASSUME TypeInv, BackfillOpens
    PROVE  /\ pass.pc = "open" /\ plan = {}
           /\ checkpoint' \in [cursor : 0..LastInstant, target : 0..LastInstant]
           /\ checkpoint'.target + Lookback <= instant /\ checkpoint'.target # 0
           /\ checkpoint.target # 0 => checkpoint' = checkpoint
           /\ checkpoint.target = 0 => /\ checkpoint'.cursor + Lookback <= instant
                                       /\ \A t \in Shots : checkpoint'.cursor <= t
           /\ UNCHANGED <<instant, shot, owner, session, neglected, torn, upsets>>
           /\ \/ pass' = NoPass /\ plan' = {}
              \/ \E cursor \in Nat, cut \in Nat :
                    /\ cursor = checkpoint'.cursor /\ cursor <= cut
                    /\ pass' = [pass EXCEPT !.pc = "backfill", !.cut = cut]
                    /\ plan' = BackfillCalls(Between(cursor, cut), cursor, cut, pass.now)
                    /\ cut + Lookback <= pass.now /\ CutIsSafe(cursor, cut)
<1> DEFINE horizon == pass.now - Lookback
           old == {t \in Shots : t < horizon}
           from == IF checkpoint.target # 0 THEN checkpoint
                   ELSE [cursor |-> IF old = {} THEN horizon ELSE Min(old), target |-> horizon]
           desired == Min({from.cursor + ChunkLength, from.target})
           far == ScanEnd(from.cursor, desired, horizon)
           cut == SafeCut(Between(from.cursor, far), desired, horizon)
<1>1. /\ pass.pc = "open" /\ checkpoint' = from
      /\ UNCHANGED <<instant, shot, owner, session, neglected, torn, upsets>>
      /\ IF from.cursor >= from.target \/ horizon <= from.cursor \/ cut = 0
         THEN pass' = NoPass /\ UNCHANGED plan
         ELSE /\ pass' = [pass EXCEPT !.pc = "backfill", !.cut = cut]
              /\ plan' = BackfillCalls(Between(from.cursor, cut), from.cursor, cut, pass.now)
  BY DEF BackfillOpens
<1>2. plan = {} /\ pass.now = instant /\ instant \in Nat /\ FirstPass <= instant /\ instant <= LastInstant
      /\ (checkpoint.target # 0 => checkpoint.target + Lookback <= instant)
      /\ checkpoint \in [cursor : 0..LastInstant, target : 0..LastInstant]
  BY <1>1, SessionFacts DEF TypeInv, SessionTypeOK, ClockInv, Instants
<1>3. horizon \in Nat /\ horizon \in 0..LastInstant /\ horizon + Lookback = instant
  BY <1>2, SessionFacts
<1>4. /\ from \in [cursor : 0..LastInstant, target : 0..LastInstant]
      /\ from.target <= horizon /\ from.target # 0
      /\ checkpoint.target # 0 => from = checkpoint
      /\ checkpoint.target = 0 => from.cursor <= horizon /\ \A t \in Shots : from.cursor <= t
  <2>1. CASE checkpoint.target # 0
    <3>1. from = checkpoint
      BY <2>1
    <3>2. checkpoint.target \in Nat
      BY <1>2
    <3> HIDE DEF from, horizon
    <3> QED BY <1>2, <1>3, <2>1, <3>1, <3>2, SessionFacts
  <2>2. CASE checkpoint.target = 0
    <3> DEFINE c == IF old = {} THEN horizon ELSE Min(old)
    <3>1. old # {} => Min(old) \in old /\ \A t \in old : Min(old) <= t
      BY InstantsNat, MinOf DEF Shots
    <3>2. Shots \subseteq 0..LastInstant /\ Shots \subseteq Nat
      BY InstantsNat DEF Shots
    <3>3. \A t \in Shots : t < horizon <=> t \in old
      OBVIOUS
    <3>4. \A t \in old : t < horizon /\ t \in Shots
      OBVIOUS
    <3>5. from = [cursor |-> c, target |-> horizon]
      BY <2>2
    <3>6. horizon # 0
      BY <1>2, <1>3, SessionFacts
    <3> HIDE DEF old, horizon, from
    <3>a. ASSUME old = {} PROVE c \in 0..LastInstant /\ c <= horizon /\ \A t \in Shots : c <= t
      <4>1. c = horizon
        BY <3>a
      <4> HIDE DEF c
      <4> QED BY <1>3, <3>2, <3>3, <3>a, <4>1
    <3>b. ASSUME old # {} PROVE c \in 0..LastInstant /\ c <= horizon /\ \A t \in Shots : c <= t
      <4>1. c = Min(old) /\ c \in old /\ c \in Nat /\ c \in 0..LastInstant /\ c < horizon
        BY <3>1, <3>2, <3>4, <3>b
      <4>2. \A t \in old : c <= t
        BY <3>1, <3>b, <4>1
      <4> HIDE DEF c
      <4> QED BY <1>3, <3>2, <3>3, <4>1, <4>2
    <3>7. c \in 0..LastInstant /\ c <= horizon /\ \A t \in Shots : c <= t
      BY <3>a, <3>b
    <3> HIDE DEF c
    <3> QED BY <1>3, <2>2, <3>5, <3>6, <3>7
  <2> QED BY <2>1, <2>2
<1>5. from.cursor \in Nat /\ from.target \in Nat
  <2> HIDE DEF from
  <2> QED BY <1>4, SessionFacts
<1>6. desired \in Nat /\ desired <= horizon
  <2> HIDE DEF from, horizon
  <2>1. from.cursor + ChunkLength \in Nat
    BY <1>5, SessionFacts
  <2>2. desired = IF from.cursor + ChunkLength <= from.target THEN from.cursor + ChunkLength ELSE from.target
    BY <1>5, <2>1, MinOfTwo
  <2> HIDE DEF desired
  <2> QED BY <1>3, <1>4, <1>5, <2>1, <2>2
<1>7. cut # 0 => cut \in Nat /\ cut <= horizon /\ CutIsSafe(from.cursor, cut)
  <2> HIDE DEF from, horizon, desired
  <2> QED BY <1>3, <1>5, <1>6, SafeCutIsSafe
<1>8. cut # 0 => cut + Lookback <= pass.now
  <2> HIDE DEF from, horizon, desired, cut
  <2> QED BY <1>2, <1>3, <1>7, SessionFacts
<1>8a. from.cursor < from.target /\ from.cursor < horizon /\ cut # 0 => from.cursor <= cut
  <2> HIDE DEF from, horizon
  <2>1. from.cursor < from.target => from.cursor <= desired
    <3>1. from.cursor + ChunkLength \in Nat
      BY <1>5, SessionFacts
    <3>2. desired = IF from.cursor + ChunkLength <= from.target THEN from.cursor + ChunkLength ELSE from.target
      BY <1>5, <3>1, MinOfTwo
    <3> HIDE DEF desired
    <3> QED BY <1>5, <3>2, SessionFacts
  <2> HIDE DEF desired, far
  <2> QED BY <1>3, <1>5, <1>6, <2>1, SafeCutAfter
<1>9. /\ checkpoint' \in [cursor : 0..LastInstant, target : 0..LastInstant]
      /\ checkpoint'.target + Lookback <= instant /\ checkpoint'.target # 0
      /\ checkpoint.target # 0 => checkpoint' = checkpoint
      /\ checkpoint.target = 0 => /\ checkpoint'.cursor + Lookback <= instant
                                  /\ \A t \in Shots : checkpoint'.cursor <= t
  <2> HIDE DEF from, horizon
  <2> QED BY <1>1, <1>2, <1>3, <1>4, <1>5, SessionFacts
<1>10. \/ pass' = NoPass /\ plan' = {}
       \/ \E k \in Nat, x \in Nat :
              /\ k = checkpoint'.cursor /\ k <= x
              /\ pass' = [pass EXCEPT !.pc = "backfill", !.cut = x]
              /\ plan' = BackfillCalls(Between(k, x), k, x, pass.now)
              /\ x + Lookback <= pass.now /\ CutIsSafe(k, x)
  <2> DEFINE stop == from.cursor >= from.target \/ horizon <= from.cursor \/ cut = 0
  <2>1. ~stop => from.cursor < from.target /\ from.cursor < horizon /\ cut # 0
    <3>1. horizon \in Nat /\ from.cursor \in Nat /\ from.target \in Nat
      BY <1>3, <1>5
    <3> HIDE DEF from, horizon, desired, far, cut
    <3> QED BY <3>1
  <2>2. /\ checkpoint' = from
        /\ stop => pass' = NoPass /\ plan' = plan
        /\ ~stop => /\ pass' = [pass EXCEPT !.pc = "backfill", !.cut = cut]
                    /\ plan' = BackfillCalls(Between(from.cursor, cut), from.cursor, cut, pass.now)
    BY <1>1
  <2> HIDE DEF from, horizon, desired, far, cut, stop
  <2>3. CASE stop
    BY <2>2, <2>3, <1>2
  <2>4. CASE ~stop
    <3>1. cut \in Nat /\ from.cursor \in Nat /\ from.cursor = checkpoint'.cursor
          /\ from.cursor <= cut
      BY <2>1, <2>2, <2>4, <1>5, <1>7, <1>8a
    <3>2. cut + Lookback <= pass.now /\ CutIsSafe(from.cursor, cut)
      BY <2>1, <2>4, <1>7, <1>8
    <3>3. /\ pass' = [pass EXCEPT !.pc = "backfill", !.cut = cut]
          /\ plan' = BackfillCalls(Between(from.cursor, cut), from.cursor, cut, pass.now)
      BY <2>2, <2>4
    <3> QED BY <3>1, <3>2, <3>3
  <2> QED BY <2>3, <2>4
<1> HIDE DEF from, horizon, desired, far, cut
<1> QED BY <1>1, <1>2, <1>9, <1>10

\* The types again: opening a backfill chunk,
LEMMA BackfillOpensType ==
    ASSUME TypeInv, BackfillOpens
    PROVE  TypeInv' /\ Steady
<1>1. /\ pass.pc = "open" /\ plan = {}
      /\ checkpoint' \in [cursor : 0..LastInstant, target : 0..LastInstant]
      /\ checkpoint'.target + Lookback <= instant
      /\ UNCHANGED <<instant, shot, owner, session, neglected, torn, upsets>>
      /\ \/ pass' = NoPass /\ plan' = {}
         \/ \E cursor \in Nat, cut \in Nat :
               /\ pass' = [pass EXCEPT !.pc = "backfill", !.cut = cut]
               /\ plan' = BackfillCalls(Between(cursor, cut), cursor, cut, pass.now)
               /\ cut + Lookback <= pass.now /\ CutIsSafe(cursor, cut)
  BY OpensIs
<1>2. ClockInv' /\ pass' \in Passes /\ pass'.pc \in {"asleep", "backfill"}
  <2>1. pass \in Passes /\ pass.now = instant /\ instant \in Nat /\ instant <= LastInstant
    <3>1. pass \in Passes /\ pass.now = instant /\ instant \in Instants
      BY <1>1 DEF TypeInv, SessionTypeOK, ClockInv
    <3> QED BY <3>1, SessionFacts DEF Instants
  <2>2. CASE pass' = NoPass
    BY <1>1, <2>2, NoPassIs DEF TypeInv, ClockInv, Shots
  <2>3. ASSUME NEW cut \in Nat, cut + Lookback <= pass.now,
               pass' = [pass EXCEPT !.pc = "backfill", !.cut = cut]
        PROVE  ClockInv' /\ pass' \in Passes /\ pass'.pc = "backfill"
    <3>1. cut \in 0..LastInstant
      BY <2>1, <2>3, SessionFacts
    <3>2. pass' \in Passes /\ pass'.pc = "backfill" /\ pass'.now = pass.now
      BY <2>1, <2>3, <3>1 DEF Passes
    <3> QED BY <1>1, <2>1, <3>2 DEF TypeInv, ClockInv, Shots
  <2> QED BY <1>1, <2>2, <2>3, NoPassIs
<1>3. RowsInv' /\ Steady
  BY <1>1 DEF TypeInv, RowsInv, RowOK, Live, FrozenRows, Steady, Shots
<1>4. ASSUME NEW c \in plan'
      PROVE  c \in Calls /\ CallOK(c)' /\ pass'.pc = "backfill" /\ c.op \notin First
  <2>1. PICK cursor \in Nat, cut \in Nat :
          /\ pass' = [pass EXCEPT !.pc = "backfill", !.cut = cut]
          /\ c \in BackfillCalls(Between(cursor, cut), cursor, cut, pass.now)
    BY <1>1
  <2> DEFINE F == Between(cursor, cut)
             E == Existing(cursor, cut, pass.now)
  <2>2. PICK d \in Segment(F, cut + MergeGap) :
             \/ \E r \in E :
                   /\ session[r].end = d.end
                   /\ c = Call(IF session[r].frozen THEN "extend" ELSE "own", r, d)
             \/ HeadOf(d, E) # {} /\ c = Call("put", 0, Narrowed(d, HeadOf(d, E)))
    BY <2>1, BackfillCallIs
  <2>3. F \in SUBSET Shots /\ F \in SUBSET Instants
    BY BetweenOK
  <2>4. pass'.pc = "backfill"
    BY <2>1 DEF TypeInv, SessionTypeOK, Passes
  <2> HIDE DEF F
  <2>5. d \in Drafts /\ Spans(d)
    BY <2>3, SegmentTyped, SegmentOK DEF TypeInv, SessionTypeOK, Spans, DraftOK
  <2>6. ASSUME NEW r \in E, c = Call(IF session[r].frozen THEN "extend" ELSE "own", r, d)
        PROVE  c \in Calls /\ CallOK(c)' /\ c.op \notin First
    <3>1. r \in Live /\ r \in SessionRows
      BY DEF Existing, Live
    <3>2. c \in Calls /\ c.op \in {"extend", "own"} /\ c.row = r /\ c.draft = d
      <4>1. CASE session[r].frozen
        <5>1. c = Call("extend", r, d)
          BY <2>6, <4>1
        <5>2. Call("extend", r, d) \in Calls
          BY <3>1, <2>5, CallIs
        <5> QED BY <5>1, <5>2 DEF Call
      <4>2. CASE ~session[r].frozen
        <5>1. c = Call("own", r, d)
          BY <2>6, <4>2
        <5>2. Call("own", r, d) \in Calls
          BY <3>1, <2>5, CallIs
        <5> QED BY <5>1, <5>2 DEF Call
      <4> QED BY <4>1, <4>2
    <3>3. Live' = Live
      BY <1>1 DEF Live
    <3> QED BY <2>4, <2>5, <3>1, <3>2, <3>3 DEF CallOK, Spans, First
  <2>7. CASE HeadOf(d, E) # {} /\ c = Call("put", 0, Narrowed(d, HeadOf(d, E)))
    <3>1. HeadOf(d, E) \in SUBSET d.ids
      BY DEF HeadOf
    <3>2. Narrowed(d, HeadOf(d, E)) \in Drafts /\ Spans(Narrowed(d, HeadOf(d, E)))
      BY <2>5, <2>7, <3>1, NarrowedOK
    <3> DEFINE e == Narrowed(d, HeadOf(d, E))
    <3> HIDE DEF e
    <3>3. e \in Drafts /\ Spans(e) /\ c = Call("put", 0, e)
      BY <2>7, <3>2 DEF e
    <3>4. c \in Calls /\ c.op = "put" /\ c.row = 0 /\ c.draft = e
      BY <3>3, CallIs
    <3> QED BY <2>4, <3>3, <3>4 DEF CallOK, Spans, First
  <2> QED BY <2>2, <2>4, <2>6, <2>7
<1>5. CallsInv'
  BY <1>4 DEF CallsInv
<1>6. SessionTypeOK'
  BY <1>1, <1>2, <1>4 DEF TypeInv, SessionTypeOK, Shots, Live
<1> QED BY <1>2, <1>3, <1>5, <1>6 DEF TypeInv

\* The call that undoes the one of a draft.
LEMMA UndoIs ==
    ASSUME NEW r \in {0} \cup SessionRows, NEW d \in Drafts
    PROVE  LET a == Call("undo", r, d)
           IN a \in Calls /\ a.op = "undo" /\ a.row = r /\ a.draft = d
BY DEF Call, Calls, Turn

\* Looking up a row's frames, asking for it: the next call of its draft is made.
LEMMA NextCallType ==
    ASSUME TypeInv, NEW c \in plan, NEW op \in First, pass.pc = "backfill", c.op # "put",
           \A o \in plan : o.op \in First => o = c,
           plan' = (plan \ {c}) \cup {Call(op, c.row, c.draft)}
    PROVE  LET a == Call(op, c.row, c.draft)
           IN /\ a \in Calls /\ a.op = op /\ a.row = c.row /\ a.draft = c.draft
              /\ c \in Calls /\ c.row \in Live
              /\ \A o \in plan' : o \in Calls
              /\ Live' = Live /\ pass'.pc = pass.pc => CallsInv'
<1> DEFINE a == Call(op, c.row, c.draft)
<1>1. c \in Calls /\ CallOK(c) /\ c.row \in Live
  BY DEF TypeInv, SessionTypeOK, CallsInv, CallOK
<1>2. c.row \in {0} \cup SessionRows /\ c.draft \in Drafts /\ c.op \in First \cup {"own", "extend"}
  BY <1>1, CallFields DEF CallOK
<1>3. a \in Calls /\ a.op = op /\ a.row = c.row /\ a.draft = c.draft
  BY <1>2, CallIs
<1> HIDE DEF a
<1>4. plan' = (plan \ {c}) \cup {a}
  BY DEF a
<1>5. ASSUME Live' = Live, pass'.pc = pass.pc PROVE CallsInv'
  <2>1. ASSUME NEW o \in plan PROVE CallOK(o)'
    BY <1>5, <2>1 DEF TypeInv, CallsInv, CallOK, Spans, First
  <2>2. ASSUME NEW o, o = a PROVE CallOK(o)'
    BY <1>1, <1>2, <1>3, <1>5, <2>2 DEF CallOK, Spans, First
  <2>3. \A o, q \in plan' : o.op \in First /\ q.op \in First => o = q
    BY <1>4
  <2> QED BY <1>4, <1>5, <2>1, <2>2, <2>3 DEF CallsInv
<1>6. \A o \in plan' : o \in Calls
  BY <1>3, <1>4 DEF TypeInv, SessionTypeOK
<1> QED BY <1>1, <1>3, <1>5, <1>6 DEF a

\* session_frames_meta,
LEMMA MetaType ==
    ASSUME TypeInv, NEW c \in plan, Meta(c)
    PROVE  TypeInv' /\ Steady
<1> DEFINE op == IF c.op = "extend" THEN "add" ELSE "assign"
<1>1. /\ c.op \in {"own", "extend", "new"} /\ NextCall(c.op, c)
      /\ pass' = [pass EXCEPT !.owned[c.row] = OwnedBy(c.row)]
      /\ plan' = (plan \ {c}) \cup {Call(op, c.row, c.draft)}
      /\ UNCHANGED <<instant, shot, owner, session, checkpoint, neglected, torn, upsets>>
  BY DEF Meta, NextCall
<1>2. pass.pc = "backfill" /\ pass \in Passes
  BY <1>1 DEF TypeInv, SessionTypeOK, CallsInv, CallOK
<1>3. pass' \in Passes /\ pass'.pc = pass.pc /\ pass'.now = pass.now
  <2>1. OwnedBy(c.row) \in SUBSET Instants
    BY DEF OwnedBy, Shots
  <2>2. pass.owned \in [SessionRows -> SUBSET Instants]
    BY <1>2 DEF Passes
  <2>3. [pass.owned EXCEPT ![c.row] = OwnedBy(c.row)] \in [SessionRows -> SUBSET Instants]
    BY <2>1, <2>2
  <2>4. pass' = [pass EXCEPT !.owned = [pass.owned EXCEPT ![c.row] = OwnedBy(c.row)]]
    BY <1>1
  <2> QED BY <1>2, <2>3, <2>4 DEF Passes
<1>4. \A o \in plan : o.op \in First => o = c
  <2>1. CASE c.op = "new"
    BY <2>1 DEF TypeInv, CallsInv, First
  <2>2. CASE c.op \in {"own", "extend"}
    BY <1>1, <2>2, AssignFirst
  <2> QED BY <1>1, <2>1, <2>2
<1>5. op \in First /\ c.op # "put"
  BY <1>1 DEF First
<1> HIDE DEF op
<1>6. Live' = Live
  BY <1>1 DEF Live
<1>7. CallsInv' /\ plan' \subseteq Calls
  BY <1>1, <1>2, <1>3, <1>4, <1>5, <1>6, NextCallType
<1>8. SessionTypeOK'
  BY <1>1, <1>2, <1>3, <1>6, <1>7 DEF TypeInv, SessionTypeOK, Shots
<1>9. ClockInv' /\ RowsInv'
  BY <1>1, <1>3 DEF TypeInv, ClockInv, RowsInv, RowOK, Shots, Live, FrozenRows
<1>10. Steady
  BY <1>1 DEF Steady, Shots
<1> QED BY <1>7, <1>8, <1>9, <1>10 DEF TypeInv

\* assign_frames_session: the call's frames are the row's, or given up,
LEMMA OwnIs ==
    ASSUME TypeInv, NEW c \in plan, Own(c)
    PROVE  LET want == c.draft.ids \ pass.owned[c.row]
           IN /\ pass.pc = "backfill" /\ c.op \in {"assign", "add"} /\ owner' = Assigned(want, c.row)
              /\ c \in Calls /\ c.row \in Live /\ c.row \in SessionRows
              /\ \A o \in plan : o.op \in First => o = c
              /\ UNCHANGED <<instant, shot, session, checkpoint, neglected, torn, upsets>>
              /\ \/ want \subseteq Assignable(want) /\ c.op = "add" /\ plan' = plan \ {c} /\ pass' = pass
                 \/ /\ want \subseteq Assignable(want) /\ c.op = "assign" /\ pass' = pass
                    /\ plan' = (plan \ {c}) \cup {Call("freeze", c.row, c.draft)}
                 \/ c.op = "add" /\ plan' = {} /\ pass' = NoPass
                 \/ c.op = "assign" /\ plan' = {Call("undo", c.row, c.draft)} /\ pass' = pass
<1>1. pass.pc = "backfill" /\ c.op \in {"assign", "add"} /\ c.op \in First
  BY DEF Own, NextCall, First
<1>2. c \in Calls /\ c.row \in Live /\ c.row \in SessionRows
  BY <1>1 DEF TypeInv, SessionTypeOK, CallsInv, CallOK, Live
<1>3. \A o \in plan : o.op \in First => o = c
  BY <1>1 DEF TypeInv, CallsInv
<1> DEFINE want == c.draft.ids \ pass.owned[c.row]
<1>4. /\ owner' = Assigned(want, c.row)
      /\ UNCHANGED <<instant, shot, session, checkpoint, neglected, torn, upsets>>
      /\ \/ /\ want \subseteq Assignable(want)
            /\ plan' = IF c.op = "add" THEN plan \ {c}
                       ELSE (plan \ {c}) \cup {Call("freeze", c.row, c.draft)}
            /\ UNCHANGED pass
         \/ IF c.op = "add" THEN plan' = {} /\ pass' = NoPass
            ELSE plan' = {Call("undo", c.row, c.draft)} /\ UNCHANGED pass
  BY DEF Own
<1> HIDE DEF want
<1>5. \/ want \subseteq Assignable(want) /\ c.op = "add" /\ plan' = plan \ {c} /\ pass' = pass
      \/ /\ want \subseteq Assignable(want) /\ c.op = "assign" /\ pass' = pass
         /\ plan' = (plan \ {c}) \cup {Call("freeze", c.row, c.draft)}
      \/ c.op = "add" /\ plan' = {} /\ pass' = NoPass
      \/ c.op = "assign" /\ plan' = {Call("undo", c.row, c.draft)} /\ pass' = pass
  BY <1>1, <1>4
<1> QED BY <1>1, <1>2, <1>3, <1>4, <1>5 DEF want

\* with calls of the right kinds.
LEMMA OwnType ==
    ASSUME TypeInv, NEW c \in plan, Own(c)
    PROVE  TypeInv' /\ Steady
<1> DEFINE want == c.draft.ids \ pass.owned[c.row]
<1>1. /\ pass.pc = "backfill" /\ c.op \in {"assign", "add"} /\ owner' = Assigned(want, c.row)
      /\ c \in Calls /\ c.row \in Live /\ c.row \in SessionRows
      /\ \A o \in plan : o.op \in First => o = c
      /\ UNCHANGED <<instant, shot, session, checkpoint, neglected, torn, upsets>>
      /\ \/ plan' = plan \ {c} /\ pass' = pass
         \/ /\ plan' = (plan \ {c}) \cup {Call("freeze", c.row, c.draft)} /\ pass' = pass
         \/ plan' = {} /\ pass' = NoPass
         \/ plan' = {Call("undo", c.row, c.draft)} /\ pass' = pass
  BY OwnIs
<1>2. /\ owner' \in [Instants -> {0} \cup SessionRows]
      /\ \A t \in Instants : owner'[t] # 0 => t \in Shots /\ owner'[t] \in Live
      /\ \A t \in Instants : owner[t] # 0 /\ session[owner[t]].frozen => owner'[t] = owner[t]
  <2> DEFINE row == c.row
  <2>1. row \in {0} \cup Live /\ owner' = Assigned(want, row)
    BY <1>1
  <2> HIDE DEF row, want
  <2>2. /\ Assigned(want, row) \in [Instants -> {0} \cup SessionRows]
        /\ \A t \in Instants : Assigned(want, row)[t] # 0 =>
              t \in Shots /\ Assigned(want, row)[t] \in Live
        /\ \A t \in Instants : owner[t] # 0 /\ session[owner[t]].frozen =>
              Assigned(want, row)[t] = owner[t]
    BY <2>1, AssignedOK
  <2> QED BY <2>1, <2>2
<1> HIDE DEF want
<1>3. Live' = Live /\ FrozenRows' = FrozenRows
  BY <1>1 DEF Live, FrozenRows
<1>4. pass' \in Passes /\ (pass' = pass \/ pass' = NoPass)
  BY <1>1, NoPassIs DEF TypeInv, SessionTypeOK
<1>5. plan' \subseteq Calls /\ CallsInv' /\ (plan' # {} => pass' = pass)
  <2>1. CASE plan' = plan \ {c} /\ pass' = pass
    BY <1>1, <1>3, <2>1 DEF TypeInv, SessionTypeOK, CallsInv, CallOK, Spans, Unfrozen
  <2>2. CASE plan' = (plan \ {c}) \cup {Call("freeze", c.row, c.draft)} /\ pass' = pass
    BY <1>1, <1>3, <2>2, NextCallType DEF First
  <2>3. CASE plan' = {}
    BY <1>1, <2>3 DEF CallsInv
  <2>4. CASE plan' = {Call("undo", c.row, c.draft)} /\ pass' = pass
    <3> DEFINE a == Call("undo", c.row, c.draft)
    <3>1. c.row \in {0} \cup SessionRows /\ c.draft \in Drafts /\ "undo" \in First
      BY <1>1, CallFields DEF First
    <3>2. a \in Calls /\ a.op = "undo" /\ a.row = c.row /\ a.draft = c.draft
      BY <3>1, UndoIs
    <3> HIDE DEF a
    <3>3. CallOK(c)
      BY DEF TypeInv, CallsInv
    <3>4. \A o \in plan' : o = a
      BY <2>4 DEF a
    <3>5. CallOK(a)'
      BY <1>1, <1>3, <2>4, <3>1, <3>2, <3>3 DEF CallOK, Spans
    <3>6. CallsInv'
      BY <1>1, <2>4, <3>4, <3>5 DEF CallsInv
    <3> QED BY <2>4, <3>2, <3>4, <3>6
  <2> QED BY <1>1, <2>1, <2>2, <2>3, <2>4
<1>6. SessionTypeOK'
  BY <1>1, <1>2, <1>3, <1>4, <1>5 DEF TypeInv, SessionTypeOK, Shots
<1>7. ClockInv' /\ RowsInv'
  BY <1>1, <1>3, <1>4, NoPassIs DEF TypeInv, ClockInv, RowsInv, RowOK, Shots
<1>8. Steady
  BY <1>1, <1>2 DEF Steady, Shots
<1> QED BY <1>5, <1>6, <1>7, <1>8 DEF TypeInv

\* freeze_sessions,
LEMMA SealType ==
    ASSUME TypeInv, NEW c \in plan, Seal(c)
    PROVE  TypeInv' /\ Steady
<1>1. /\ c.op = "freeze" /\ c.op \in First /\ session' = Frozen(pass.now)
      /\ torn' \subseteq torn \cup SessionRows
      /\ plan' = (plan \ {c}) \cup {Call("confirm", c.row, c.draft)}
      /\ UNCHANGED <<instant, shot, owner, checkpoint, pass, neglected, upsets>>
  BY DEF Seal, Freezes, NextCall, First
<1>2. pass.pc = "backfill" /\ pass.now = instant
  BY <1>1 DEF TypeInv, SessionTypeOK, CallsInv, CallOK, ClockInv
<1>3. \A o \in plan : o.op \in First => o = c
  BY <1>1 DEF TypeInv, CallsInv
<1>4. /\ session' \in [SessionRows -> Rows] /\ RowsInv' /\ Live' = Live
      /\ \A r \in FrozenRows : session'[r] = session[r]
  BY <1>1, <1>2, FreezesType
<1>5. plan' \subseteq Calls /\ CallsInv'
  BY <1>1, <1>2, <1>3, <1>4, NextCallType DEF First
<1>6. SessionTypeOK'
  BY <1>1, <1>2, <1>4, <1>5 DEF TypeInv, SessionTypeOK, Shots
<1>7. ClockInv'
  BY <1>1 DEF TypeInv, ClockInv, Shots
<1>8. Steady
  BY <1>1, <1>4 DEF Steady, Shots
<1> QED BY <1>4, <1>5, <1>6, <1>7, <1>8 DEF TypeInv

\* get_session,
LEMMA ConfirmType ==
    ASSUME TypeInv, NEW c \in plan, Confirm(c)
    PROVE  /\ TypeInv' /\ Steady /\ pass.pc = "backfill" /\ c.op = "confirm" /\ c \in Calls
           /\ UNCHANGED <<instant, shot, owner, session, checkpoint, pass, neglected, torn, upsets>>
           /\ \/ session[c.row].frozen /\ plan' = plan \ {c}
              \/ /\ plan' = {Call("undo", c.row, c.draft)}
                 /\ LET a == Call("undo", c.row, c.draft)
                    IN a.op = "undo" /\ a.row = c.row /\ a.draft = c.draft
<1>1. /\ c.op = "confirm" /\ c.op \in First
      /\ plan' = IF session[c.row].frozen THEN plan \ {c} ELSE {Call("undo", c.row, c.draft)}
      /\ UNCHANGED <<instant, shot, owner, session, checkpoint, pass, neglected, torn, upsets>>
  BY DEF Confirm, NextCall, First
<1>2. pass.pc = "backfill" /\ c \in Calls /\ CallOK(c)
  BY <1>1 DEF TypeInv, SessionTypeOK, CallsInv, CallOK
<1> DEFINE a == Call("undo", c.row, c.draft)
<1>3. c.row \in {0} \cup SessionRows /\ c.draft \in Drafts /\ "undo" \in First
  BY <1>2, CallFields DEF First
<1>4. a \in Calls /\ a.op = "undo" /\ a.row = c.row /\ a.draft = c.draft
  BY <1>3, UndoIs
<1> HIDE DEF a
<1>5. plan' = plan \ {c} \/ plan' = {a}
  BY <1>1 DEF a
<1>6. Live' = Live
  BY <1>1 DEF Live
<1>7. plan' \subseteq Calls /\ CallsInv'
  <2>1. CASE plan' = plan \ {c}
    BY <1>1, <1>6, <2>1 DEF TypeInv, SessionTypeOK, CallsInv, CallOK, Spans, Unfrozen
  <2>2. CASE plan' = {a}
    <3>1. CallOK(a)'
      BY <1>1, <1>2, <1>3, <1>4, <1>6 DEF CallOK, Spans
    <3> QED BY <1>1, <1>2, <1>4, <2>2, <3>1 DEF CallsInv
  <2> QED BY <1>5, <2>1, <2>2
<1>8. SessionTypeOK'
  BY <1>1, <1>2, <1>6, <1>7 DEF TypeInv, SessionTypeOK, Shots
<1>9. ClockInv' /\ RowsInv' /\ Steady
  BY <1>1 DEF TypeInv, ClockInv, RowsInv, RowOK, Shots, Live, FrozenRows, Steady
<1>10. TypeInv' /\ Steady
  BY <1>7, <1>8, <1>9 DEF TypeInv
<1>11. (session[c.row].frozen /\ plan' = plan \ {c}) \/ plan' = {a}
  BY <1>1 DEF a
<1> QED BY <1>1, <1>2, <1>4, <1>10, <1>11 DEF a

\* delete_unfrozen_session,
LEMMA UndoType ==
    ASSUME TypeInv, NEW c \in plan, Undo(c)
    PROVE  /\ TypeInv' /\ Steady /\ pass.pc = "backfill" /\ c.row \in SessionRows
           /\ plan' = {} /\ pass' = NoPass /\ Deleted(c.row)
           /\ UNCHANGED <<instant, shot, checkpoint, neglected, torn, upsets>>
<1>1. /\ c.op = "undo" /\ plan' = {} /\ pass' = NoPass /\ Deleted(c.row)
      /\ UNCHANGED <<instant, shot, checkpoint, neglected, torn, upsets>>
  BY DEF Undo, NextCall
<1>2. pass.pc = "backfill" /\ c.row \in SessionRows
  BY <1>1 DEF TypeInv, SessionTypeOK, CallsInv, CallOK, Live
<1>3. /\ session' \in [SessionRows -> Rows]
      /\ owner' \in [Instants -> {0} \cup SessionRows]
      /\ \A t \in Instants : owner'[t] # 0 => t \in Shots /\ owner'[t] \in Live'
      /\ \A s \in SessionRows : s # c.row \/ session[s].frozen => session'[s] = session[s]
      /\ ~session[c.row].frozen => session'[c.row] = NoRow
      /\ \A t \in Instants : owner[t] # 0 /\ session[owner[t]].frozen => owner'[t] = owner[t]
  BY <1>1, <1>2, DeletedOK
<1>4. SessionTypeOK'
  BY <1>1, <1>3, NoPassIs DEF TypeInv, SessionTypeOK, Shots
<1>5. RowsInv'
  <2>1. ASSUME NEW r \in SessionRows PROVE RowOK(r)'
    <3>1. CASE session'[r] = session[r]
      BY <1>1, <3>1 DEF TypeInv, RowsInv, RowOK, Live, FrozenRows
    <3>2. CASE session'[r] = NoRow
      BY <3>2 DEF RowOK, Live, FrozenRows, NoRow
    <3> QED BY <1>3, <3>1, <3>2
  <2> QED BY <2>1 DEF RowsInv
<1>6. CallsInv' /\ ClockInv'
  BY <1>1, NoPassIs DEF TypeInv, ClockInv, CallsInv, Shots
<1>7. Steady
  BY <1>1, <1>3 DEF Steady, Shots, FrozenRows, Live
<1> QED BY <1>1, <1>2, <1>4, <1>5, <1>6, <1>7 DEF TypeInv

\* saving the cursor,
LEMMA SaveCheckpointType ==
    ASSUME TypeInv, SaveCheckpoint
    PROVE  TypeInv' /\ Steady
<1>1. /\ pass' = NoPass /\ plan' = {} /\ checkpoint' = [checkpoint EXCEPT !.cursor = pass.cut]
      /\ UNCHANGED <<instant, shot, owner, session, neglected, torn, upsets>>
  BY DEF SaveCheckpoint
<1>2. /\ checkpoint' \in [cursor : 0..LastInstant, target : 0..LastInstant]
      /\ checkpoint'.target = checkpoint.target
  <2>1. pass.cut \in 0..LastInstant
    BY DEF TypeInv, SessionTypeOK, Passes
  <2> QED BY <1>1, <2>1 DEF TypeInv, SessionTypeOK
<1>3. SessionTypeOK'
  BY <1>1, <1>2, NoPassIs DEF TypeInv, SessionTypeOK, Shots, Live
<1>4. ClockInv' /\ RowsInv' /\ CallsInv'
  BY <1>1, <1>2, NoPassIs DEF TypeInv, ClockInv, RowsInv, RowOK, CallsInv, Shots, Live, FrozenRows
<1>5. Steady
  BY <1>1 DEF Steady, Shots
<1> QED BY <1>3, <1>4, <1>5 DEF TypeInv

\* a frame captured,
LEMMA TickType ==
    ASSUME TypeInv, Tick
    PROVE  TypeInv' /\ Steady
<1>1. /\ pass.pc = "asleep" /\ instant < LastInstant /\ instant' = instant + 1
      /\ UNCHANGED <<owner, session, checkpoint, pass, plan, neglected, torn, upsets>>
  BY DEF Tick
<1>2. PICK a \in Captured[instant'] : shot' = [shot EXCEPT ![instant'] = a]
  BY DEF Tick
<1>3. instant \in Nat /\ instant' \in Instants /\ instant < instant'
  <2>1. instant \in Nat /\ instant' = instant + 1 /\ instant < LastInstant
    BY <1>1, InstantsNat DEF TypeInv, SessionTypeOK
  <2> QED BY <2>1, SessionFacts DEF Instants
<1>4. a \in Apps \cup {NoApp}
  BY <1>3, SessionAssumption DEF Instants, NoApp
<1>5. shot \in [Instants -> Apps \cup {NoApp}] /\ plan = {}
  BY <1>1 DEF TypeInv, SessionTypeOK
<1>6. /\ shot' \in [Instants -> Apps \cup {NoApp}]
      /\ \A t \in Instants : t # instant' => shot'[t] = shot[t]
  BY <1>2, <1>3, <1>4, <1>5
<1>7. shot[instant'] = NoApp
  <2>1. instant' \in Shots => instant' <= instant
    BY DEF TypeInv, ClockInv
  <2>2. instant' \in Nat
    BY <1>3, InstantsNat
  <2>3. instant' \notin Shots
    BY <1>3, <2>1, <2>2
  <2> QED BY <1>3, <2>3 DEF Shots
<1>8. /\ Shots \subseteq Shots' /\ Shots' \subseteq Shots \cup {instant'}
      /\ Shots \subseteq Nat
  BY <1>6, <1>7, InstantsNat DEF Shots
<1>9. SessionTypeOK'
  BY <1>1, <1>3, <1>6, <1>8 DEF TypeInv, SessionTypeOK, Live
<1>10. ClockInv'
  <2>1. ASSUME NEW t \in Shots' PROVE t <= instant'
    <3>1. CASE t \in Shots
      <4>1. t <= instant /\ t \in Nat
        BY <1>8, <3>1 DEF TypeInv, ClockInv
      <4> QED BY <1>1, <1>3, <4>1
    <3>2. CASE t = instant'
      BY <1>1, <1>3, <3>2
    <3> QED BY <1>8, <3>1, <3>2
  <2>2. FirstPass <= instant' /\ (checkpoint.target # 0 => checkpoint.target + Lookback <= instant')
    <3>1. checkpoint.target \in Nat
      BY SessionFacts DEF TypeInv, SessionTypeOK
    <3> QED BY <3>1, <1>1, <1>3, SessionFacts DEF TypeInv, ClockInv
  <2> QED BY <1>1, <2>1, <2>2 DEF ClockInv
<1>11. RowsInv'
  <2>1. ASSUME NEW r \in SessionRows PROVE RowOK(r)'
    <3>1. RowOK(r) /\ session[r] \in Rows
      BY DEF TypeInv, RowsInv, SessionTypeOK
    <3>2. session[r].end \in Nat
      BY <3>1, SessionFacts DEF Rows
    <3>3. session' = session /\ Live' = Live /\ FrozenRows' = FrozenRows
      BY <1>1 DEF Live, FrozenRows
    <3>4. r \in FrozenRows => session[r].end # 0 /\ session[r].end + Lookback < instant'
      BY <1>1, <1>3, <3>1, <3>2, SessionFacts DEF RowOK
    <3> QED BY <3>1, <3>3, <3>4 DEF RowOK
  <2> QED BY <2>1 DEF RowsInv
<1>12. CallsInv'
  BY <1>1, <1>5 DEF CallsInv
<1>13. Steady
  BY <1>1, <1>3, <1>8 DEF Steady
<1> QED BY <1>9, <1>10, <1>11, <1>12, <1>13 DEF TypeInv

\* a frame deleted,
LEMMA DeleteFrameType ==
    ASSUME TypeInv, NEW u \in Instants, DeleteFrame(u)
    PROVE  TypeInv' /\ Steady
<1>1. /\ Upset /\ shot' = [shot EXCEPT ![u] = NoApp] /\ owner' = [owner EXCEPT ![u] = 0]
      /\ UNCHANGED <<instant, session, checkpoint, pass, plan, neglected, torn>>
  BY DEF DeleteFrame
<1>2. /\ shot \in [Instants -> Apps \cup {NoApp}] /\ owner \in [Instants -> {0} \cup SessionRows]
      /\ upsets' \in 0..MaxUpsets
  BY <1>1, SessionFacts DEF TypeInv, SessionTypeOK, Upset
<1>3. /\ shot' \in [Instants -> Apps \cup {NoApp}] /\ owner' \in [Instants -> {0} \cup SessionRows]
      /\ Shots' = Shots \ {u} /\ owner'[u] = 0
      /\ \A t \in Instants : t # u => owner'[t] = owner[t]
  BY <1>1, <1>2 DEF Shots
<1>4. SessionTypeOK'
  BY <1>1, <1>2, <1>3 DEF TypeInv, SessionTypeOK, Live
<1>5. ClockInv' /\ RowsInv' /\ CallsInv'
  BY <1>1, <1>3 DEF TypeInv, ClockInv, RowsInv, RowOK, CallsInv, CallOK, Live, FrozenRows, Unfrozen, Spans
<1>6. Steady
  BY <1>1, <1>3 DEF Steady, Shots
<1> QED BY <1>4, <1>5, <1>6 DEF TypeInv

\* a store call that fails,
LEMMA CallFailsType ==
    ASSUME TypeInv, CallFails
    PROVE  TypeInv' /\ Steady
<1>1. /\ plan' = {} /\ Upset
      /\ pass' = IF pass.pc = "incremental" THEN [pass EXCEPT !.whole = FALSE] ELSE NoPass
      /\ neglected' = neglected \cup Abandoned
      /\ UNCHANGED <<instant, shot, owner, session, checkpoint, torn>>
  BY DEF CallFails
<1>2. pass' \in Passes /\ (pass'.pc # "asleep" => pass'.now = pass.now /\ pass.pc # "asleep")
  <2>1. CASE pass.pc = "incremental"
    <3>1. pass \in Passes /\ pass' = [pass EXCEPT !.whole = FALSE]
      BY <1>1, <2>1 DEF TypeInv, SessionTypeOK
    <3>2. pass' \in Passes /\ pass'.now = pass.now
      BY <3>1 DEF Passes
    <3> QED BY <2>1, <3>2
  <2>2. CASE pass.pc # "incremental"
    BY <1>1, <2>2, NoPassIs
  <2> QED BY <2>1, <2>2
<1>3. Abandoned \subseteq Instants
  <2>1. \A c \in plan : c.draft.ids \subseteq Instants
    BY CallFields DEF TypeInv, SessionTypeOK, Drafts
  <2> QED BY <2>1 DEF Abandoned
<1>4. upsets' \in 0..MaxUpsets
  BY <1>1, SessionFacts DEF TypeInv, SessionTypeOK, Upset
<1>5. SessionTypeOK'
  BY <1>1, <1>2, <1>3, <1>4 DEF TypeInv, SessionTypeOK, Shots, Live
<1>6. ClockInv' /\ RowsInv' /\ CallsInv'
  BY <1>1, <1>2 DEF TypeInv, ClockInv, RowsInv, RowOK, CallsInv, Shots, Live, FrozenRows
<1>7. Steady
  BY <1>1 DEF Steady, Shots
<1> QED BY <1>5, <1>6, <1>7 DEF TypeInv

\* the end of the process.
LEMMA ProcessDiesType ==
    ASSUME TypeInv, ProcessDies
    PROVE  TypeInv' /\ Steady
<1>1. /\ plan' = {} /\ pass' = NoPass /\ Upset
      /\ UNCHANGED <<instant, shot, owner, session, checkpoint, neglected, torn>>
  BY DEF ProcessDies
<1>2. upsets' \in 0..MaxUpsets
  BY <1>1, SessionFacts DEF TypeInv, SessionTypeOK, Upset
<1>3. SessionTypeOK'
  BY <1>1, <1>2, NoPassIs DEF TypeInv, SessionTypeOK, Shots, Live
<1>4. ClockInv' /\ RowsInv' /\ CallsInv'
  BY <1>1, NoPassIs DEF TypeInv, ClockInv, RowsInv, RowOK, CallsInv, Shots, Live, FrozenRows
<1>5. Steady
  BY <1>1 DEF Steady, Shots
<1> QED BY <1>3, <1>4, <1>5 DEF TypeInv

-----------------------------------------------------------------------------
(* What a pass begins with. *)

TailFrom == Min({instant - Lookback} \cup {session[r].start : r \in Unfrozen})
SeenShots == {t \in Shots : TailFrom <= t /\ t <= instant}
MetRows == {r \in Live : session[r].frozen /\ session[r].end > TailFrom
                            /\ session[r].start <= instant}

\* The mutable tail begins at some time.
LEMMA TailFromOK ==
    ASSUME TypeInv
    PROVE  TailFrom \in Nat
<1> DEFINE S == {instant - Lookback} \cup {session[r].start : r \in Unfrozen}
<1>1. instant - Lookback \in Nat
  BY SessionFacts DEF TypeInv, SessionTypeOK, ClockInv, Instants
<1>2. \A r \in SessionRows : session[r].start \in Nat
  BY SessionFacts DEF TypeInv, SessionTypeOK, Rows
<1>3. S \in SUBSET Nat /\ S # {}
  BY <1>1, <1>2 DEF Unfrozen, Live
<1> HIDE DEF S
<1>4. Min(S) \in Nat
  BY <1>3, MinOf
<1> QED BY <1>4 DEF TailFrom, S

\* A draft of the mutable tail is what the frozen rows leave of a segment.
LEMMA TailDraftOK ==
    ASSUME TypeInv, NEW e \in IncrementalDrafts(instant)
    PROVE  /\ e \in Drafts /\ Spans(e) /\ e.ids # {}
           /\ \E d \in Segment(SeenShots, instant) :
                 e = TailDraft(d, MetRows) /\ e.ids = TailOf(d, MetRows) /\ e.open = d.open
<1> DEFINE D == IF SeenShots = {} THEN {} ELSE Segment(SeenShots, instant)
<1>1. e \in TrimTail(D, MetRows)
  BY DEF IncrementalDrafts, TailFrom, SeenShots, MetRows
<1>2. SeenShots \in SUBSET Shots /\ SeenShots \in SUBSET Instants
  BY DEF SeenShots, Shots
<1>3. \A d \in Segment(SeenShots, instant) : d \in Drafts /\ Spans(d)
  BY <1>2, SegmentTyped, SegmentOK DEF TypeInv, SessionTypeOK, Spans, DraftOK
<1>4. D \subseteq Segment(SeenShots, instant)
  OBVIOUS
<1>5. D \subseteq Drafts /\ \A d \in D : Spans(d)
  BY <1>3, <1>4
<1> HIDE DEF D
<1> QED BY <1>1, <1>4, <1>5, TrimTailOK

\* The place of a draft in a call that has none.
LEMMA NoDraftOK == NoDraft \in Drafts
<1>1. 0 \in 0..LastInstant
  BY SessionFacts
<1> QED BY <1>1 DEF NoDraft, Drafts

\* Every row that is not frozen is matched and put, or dropped.
LEMMA PassBeginsIs ==
    ASSUME TypeInv, PassBegins
    PROVE  /\ pass.pc = "asleep" /\ plan = {}
           /\ pass' \in Passes /\ pass'.pc = "incremental" /\ pass'.now = instant /\ pass'.whole
           /\ UNCHANGED <<instant, shot, owner, session, checkpoint, neglected, torn, upsets>>
           /\ \A c \in plan' :
                 /\ c \in Calls /\ c.op \in {"release", "drop", "put"}
                 /\ c.row \in {0} \cup Unfrozen
                 /\ c.op \in {"release", "drop"} => c.row # 0
                 /\ c.op # "drop" => c.draft \in IncrementalDrafts(instant)
           /\ \A r \in Unfrozen : \E c \in plan' : c.op \in {"put", "drop"} /\ c.row = r
           /\ \A c, o \in plan' : c.op = "put" /\ o.op = "put" /\ c # o => c.draft # o.draft
<1> DEFINE D == IncrementalDrafts(instant)
<1> HIDE DEF D
<1>1. /\ pass.pc = "asleep"
      /\ pass' = [NoPass EXCEPT !.pc = "incremental", !.now = instant,
                                !.owned = [r \in SessionRows |->
                                    IF r \in Unfrozen THEN OwnedBy(r) ELSE {}]]
      /\ \E to \in Matchings(D, Unfrozen, instant) : plan' = IncrementalCalls(D, Unfrozen, to)
      /\ UNCHANGED <<instant, shot, owner, session, checkpoint, neglected, torn, upsets>>
  BY DEF PassBegins, D
<1>2. PICK to \in Matchings(D, Unfrozen, instant) : plan' = IncrementalCalls(D, Unfrozen, to)
  BY <1>1
<1>3. to \in [D -> Unfrozen \cup {0}]
  BY DEF Matchings
<1>4. plan = {} /\ instant \in 0..LastInstant
  BY <1>1, InstantsNat DEF TypeInv, SessionTypeOK
<1>5. pass' \in Passes /\ pass'.pc = "incremental" /\ pass'.now = instant /\ pass'.whole
  <2> DEFINE owned == [r \in SessionRows |-> IF r \in Unfrozen THEN OwnedBy(r) ELSE {}]
  <2>1. owned \in [SessionRows -> SUBSET Instants]
    BY DEF OwnedBy, Shots
  <2>2. pass' = [NoPass EXCEPT !.pc = "incremental", !.now = instant, !.owned = owned]
    BY <1>1
  <2> HIDE DEF owned
  <2> QED BY <2>1, <2>2, <1>4, NoPassIs DEF Passes, NoPass
<1>6. \A d \in D : d \in Drafts
  BY TailDraftOK DEF D
<1>7. \A r \in Unfrozen : r \in SessionRows /\ r # 0
  BY SessionFacts DEF Unfrozen, Live, SessionRows
<1>8. ASSUME NEW c \in plan'
      PROVE  \/ \E d \in D : c = Call("release", to[d], d) /\ to[d] # 0
             \/ \E r \in Unfrozen : c = Call("drop", r, NoDraft)
             \/ \E d \in D : c = Call("put", to[d], d)
  BY <1>2 DEF IncrementalCalls
<1>9. ASSUME NEW c \in plan'
      PROVE  /\ c \in Calls /\ c.op \in {"release", "drop", "put"}
             /\ c.row \in {0} \cup Unfrozen
             /\ c.op \in {"release", "drop"} => c.row # 0
             /\ c.op # "drop" => c.draft \in D
             /\ c.op = "put" => c = Call("put", to[c.draft], c.draft)
  <2>1. ASSUME NEW d \in D, c = Call("release", to[d], d), to[d] # 0
        PROVE  c \in Calls /\ c.op = "release" /\ c.row = to[d] /\ c.draft = d
    <3>1. PICK r \in {0} \cup SessionRows : r = to[d]
      BY <1>3, <1>7
    <3>2. /\ Call("release", r, d) \in Calls /\ Call("release", r, d).op = "release"
          /\ Call("release", r, d).row = r /\ Call("release", r, d).draft = d
      BY <1>6, CallIs
    <3> QED BY <2>1, <3>1, <3>2
  <2>2. ASSUME NEW r \in Unfrozen, c = Call("drop", r, NoDraft)
        PROVE  c \in Calls /\ c.op = "drop" /\ c.row = r
    <3>1. r \in {0} \cup SessionRows
      BY <1>7
    <3> QED BY <2>2, <3>1, NoDraftOK, CallIs
  <2>3. ASSUME NEW d \in D, c = Call("put", to[d], d)
        PROVE  c \in Calls /\ c.op = "put" /\ c.row = to[d] /\ c.draft = d
    <3>1. PICK r \in {0} \cup SessionRows : r = to[d]
      BY <1>3, <1>7
    <3>2. /\ Call("put", r, d) \in Calls /\ Call("put", r, d).op = "put"
          /\ Call("put", r, d).row = r /\ Call("put", r, d).draft = d
      BY <1>6, CallIs
    <3> QED BY <2>3, <3>1, <3>2
  <2> QED BY <1>3, <1>7, <1>8, <2>1, <2>2, <2>3
<1>10. ASSUME NEW r \in Unfrozen
       PROVE  \E c \in plan' : c.op \in {"put", "drop"} /\ c.row = r
  <2>1. CASE \E d \in D : to[d] = r
    <3>1. PICK d \in D : to[d] = r
      BY <2>1
    <3>2. Call("put", to[d], d) \in plan'
      BY <1>2 DEF IncrementalCalls
    <3>3. Call("put", to[d], d).op = "put" /\ Call("put", to[d], d).row = to[d]
      BY DEF Call
    <3> QED BY <3>1, <3>2, <3>3
  <2>2. CASE \A d \in D : to[d] # r
    <3>1. Call("drop", r, NoDraft) \in plan'
      BY <1>2, <2>2 DEF IncrementalCalls
    <3>2. Call("drop", r, NoDraft).op = "drop" /\ Call("drop", r, NoDraft).row = r
      BY DEF Call
    <3> QED BY <3>1, <3>2
  <2> QED BY <2>1, <2>2
<1>11. \A c, o \in plan' : c.op = "put" /\ o.op = "put" /\ c # o => c.draft # o.draft
  BY <1>9
<1> QED BY <1>1, <1>4, <1>5, <1>9, <1>10, <1>11 DEF D

\* The types when a pass begins,
LEMMA PassBeginsType ==
    ASSUME TypeInv, PassBegins
    PROVE  TypeInv' /\ Steady
<1>1. /\ pass.pc = "asleep" /\ pass' \in Passes
      /\ pass'.pc = "incremental" /\ pass'.now = instant /\ pass'.whole
      /\ UNCHANGED <<instant, shot, owner, session, checkpoint, neglected, torn, upsets>>
      /\ \A c \in plan' :
            /\ c \in Calls /\ c.op \in {"release", "drop", "put"}
            /\ c.row \in {0} \cup Unfrozen
            /\ c.op \in {"release", "drop"} => c.row # 0
            /\ c.op # "drop" => c.draft \in IncrementalDrafts(instant)
  BY PassBeginsIs
<1>2. SessionTypeOK'
  BY <1>1 DEF TypeInv, SessionTypeOK, Shots, Live
<1>3. ClockInv' /\ RowsInv'
  BY <1>1 DEF TypeInv, ClockInv, RowsInv, RowOK, Shots, Live, FrozenRows
<1>4. CallsInv'
  <2>1. ASSUME NEW c \in plan' PROVE CallOK(c)'
    <3>1. c.op # "drop" => Spans(c.draft)
      BY <1>1, TailDraftOK
    <3>2. c.row # 0 => ~session[c.row].frozen
      BY <1>1 DEF Unfrozen
    <3> QED BY <1>1, <3>1, <3>2 DEF CallOK, Spans
  <2>2. \A c \in plan' : c.op \notin First
    BY <1>1 DEF First
  <2> QED BY <1>1, <2>1, <2>2 DEF CallsInv
<1>5. Steady
  BY <1>1 DEF Steady, Shots
<1> QED BY <1>2, <1>3, <1>4, <1>5 DEF TypeInv

\* and when nothing happens.
LEMMA StutterType ==
    ASSUME TypeInv, UNCHANGED sessionVars
    PROVE  TypeInv' /\ Steady
<1>1. SessionTypeOK' /\ ClockInv' /\ RowsInv'
  BY DEF sessionVars, TypeInv, SessionTypeOK, ClockInv, RowsInv, RowOK, Shots, Live, FrozenRows
<1>2. CallsInv' /\ Steady
  BY DEF sessionVars, TypeInv, CallsInv, CallOK, Unfrozen, Live, Spans, Steady, Shots
<1> QED BY <1>1, <1>2 DEF TypeInv

\* Every step keeps the types, and lets nothing sealed change.
LEMMA SessionStepType ==
    ASSUME TypeInv, [SessionNext]_sessionVars
    PROVE  TypeInv' /\ Steady
<1>1. CASE PassBegins \/ PassFreezes \/ BackfillOpens \/ SaveCheckpoint \/ Tick \/ CallFails
           \/ ProcessDies
  BY <1>1, PassBeginsType, PassFreezesType, BackfillOpensType, SaveCheckpointType, TickType,
     CallFailsType, ProcessDiesType
<1>2. ASSUME NEW c \in plan,
             \/ Release(c) \/ Drop(c) \/ Put(c) \/ Assign(c)
             \/ Meta(c) \/ Own(c) \/ Seal(c) \/ Confirm(c) \/ Undo(c)
      PROVE  TypeInv' /\ Steady
  BY <1>2, ReleaseType, DropType, PutType, AssignType,
     MetaType, OwnType, SealType, ConfirmType, UndoType
<1>3. ASSUME NEW throttled \in BOOLEAN, Freeze(throttled)
      PROVE  TypeInv' /\ Steady
  BY <1>3, FreezeType
<1>4. ASSUME NEW t \in Instants, DeleteFrame(t)
      PROVE  TypeInv' /\ Steady
  BY <1>4, DeleteFrameType
<1>5. CASE UNCHANGED sessionVars
  BY <1>5, StutterType
<1> QED BY <1>1, <1>2, <1>3, <1>4, <1>5 DEF SessionNext

\* Rows, frames and calls are what they should be: a frame belongs to a row that
\* is there, and only a pass that makes calls has calls left.
THEOREM SessionSafety == SessionSpec => []SessionTypeOK
<1>1. SessionInit => TypeInv
  BY SessionInitType
<1>2. TypeInv /\ [SessionNext]_sessionVars => TypeInv'
  BY SessionStepType
<1>3. TypeInv => SessionTypeOK
  BY DEF TypeInv
<1> QED BY <1>1, <1>2, <1>3, PTL DEF SessionSpec

-----------------------------------------------------------------------------
(* Frozen sessions are disjoint: why no pass freezes a row that meets one.  *)

Off(i, j) == i.end < j.start \/ j.end < i.start

\* The frozen rows but those of a pass that had lost a part of its calls.
Sealed == FrozenRows \ torn

\* The frame has gone or is a frozen row's.
KeptOrGone(t) == t \in Shots => owner[t] # 0 /\ session[owner[t]].frozen

\* The frames that go on with a session which ends at e, and that a frozen row
\* starts between.
After(e) == {t \in Shots : e < t /\ t < e + MergeGap}
Covered(e) ==
    \A t \in After(e) : \E r \in FrozenRows : e < session[r].start /\ session[r].start <= t

\* A frozen row that was cut short was so by another, and kept its last frame.
SealedInv ==
    /\ \A r, s \in Sealed : r # s => Off(session[r], session[s])
    /\ \A r \in Sealed : /\ Covered(session[r].end)
                         /\ After(session[r].end) # {} => KeptOrGone(session[r].end)

Puts == {c \in plan : c.op = "put"}
Pending == {c.row : c \in {c \in plan : c.op \in {"put", "drop"}}}
\* The rows as the incremental pass leaves them, those that are to be frozen.
Settled == {r \in Unfrozen \ Pending : session[r].end # 0}

TailInv == pass.pc \in {"incremental", "freeze"} /\ pass.whole =>
    /\ \A c, d \in Puts : c # d => Off(c.draft, d.draft)
    /\ \A c \in Puts, r \in Settled \cup Sealed : Off(c.draft, session[r])
    /\ \A r \in Settled, s \in Settled \cup Sealed : r # s => Off(session[r], session[s])
    /\ \A c \in Puts : After(c.draft.end) = {}
    /\ \A r \in Settled : After(session[r].end) = {}

\* The rows a chunk makes; the freeze pass before it left no other to freeze.
Coming == {c \in plan : c.op \in {"put", "new", "assign", "freeze"}}
Due(r) == session[r].end # 0 /\ session[r].end + Lookback < pass.now

ClearOK(c) ==
    /\ KeptOrGone(c.draft.start) \/ \A r \in Sealed : Off(c.draft, session[r])
    /\ Covered(c.draft.end)
    /\ c.draft.end + Lookback < pass.now
    /\ ~c.draft.open
    /\ c.op # "put" => session[c.row] = RowOf(c.draft)

\* How far the calls of a draft have come: its row is new, it has no frames, it has
\* them all.
StageOK(c) ==
    /\ c.op = "new" => OwnedBy(c.row) = {}
    /\ c.op = "assign" => pass.owned[c.row] = {}
    /\ c.op = "freeze" => /\ \A r \in Sealed : Off(c.draft, session[r])
                          /\ c.draft.end \in Shots => owner[c.draft.end] = c.row

ComingOK(c) == ClearOK(c) /\ StageOK(c)

DueCalls == {c \in plan : c.op \in {"new", "assign", "freeze", "undo"}}

ChunkInv == pass.pc \in {"open", "backfill"} /\ pass.whole =>
    /\ \A c \in plan : c.op # "own"
    /\ \A r \in Unfrozen : Due(r) => \E c \in DueCalls : c.row = r
    /\ \A c, d \in Coming : c # d => Off(c.draft, d.draft)
    /\ \A c \in Coming : ComingOK(c)

DisjointInv == TypeInv /\ SealedInv /\ TailInv /\ ChunkInv

\* What is so of a frozen row, or of an instant of a pass, stays so.
LEMMA StaysOK ==
    ASSUME TypeInv, TypeInv', Steady
    PROVE  /\ FrozenRows \subseteq FrozenRows'
           /\ \A t \in 0..LastInstant :
                 t <= instant /\ KeptOrGone(t) /\ t \in Shots' => owner'[t] # 0 /\ session'[owner'[t]].frozen
           /\ \A e \in 0..LastInstant, t \in Shots' :
                 (e + Lookback < instant \/ pass.pc # "asleep") /\ e < t /\ t < e + MergeGap
                     => t \in After(e)
<1>1. \A r \in FrozenRows : session'[r] = session[r] /\ r \in SessionRows
  BY DEF Steady, FrozenRows, Live
<1>2. FrozenRows \subseteq FrozenRows'
  BY <1>1 DEF FrozenRows, Live
<1>3. instant \in Nat
  BY InstantsNat DEF TypeInv, SessionTypeOK
<1>4. ASSUME NEW t \in 0..LastInstant, t <= instant, KeptOrGone(t), t \in Shots'
      PROVE  owner'[t] # 0 /\ session'[owner'[t]].frozen
  <2>1. t \in Nat /\ t # instant + 1
    BY <1>3, <1>4, SessionFacts
  <2>2. t \in Shots
    BY <1>4, <2>1 DEF Steady
  <2>3. owner[t] # 0 /\ session[owner[t]].frozen
    BY <1>4, <2>2 DEF KeptOrGone
  <2>4. owner'[t] = owner[t] /\ owner[t] \in FrozenRows
    BY <1>4, <2>2, <2>3 DEF Steady, TypeInv, SessionTypeOK, FrozenRows, Shots
  <2> QED BY <1>1, <2>3, <2>4
<1>5. ASSUME NEW e \in 0..LastInstant, NEW t \in Shots',
             e + Lookback < instant \/ pass.pc # "asleep", e < t, t < e + MergeGap
      PROVE  t \in After(e)
  <2>1. e \in Nat
    BY SessionFacts
  <2>2. t \in Shots
    <3>1. t \in Shots \/ (pass.pc = "asleep" /\ t = instant + 1)
      BY DEF Steady
    <3> QED BY <3>1, <1>3, <1>5, <2>1, SessionFacts
  <2> QED BY <1>5, <2>2 DEF After
<1> QED BY <1>2, <1>4, <1>5

\* The row a sealed row is.
LEMMA SealedRow ==
    ASSUME TypeInv, NEW r \in FrozenRows
    PROVE  /\ session[r].start \in 0..LastInstant /\ session[r].end \in 0..LastInstant
           /\ 1 <= session[r].start /\ session[r].start <= session[r].end
           /\ session[r].end + Lookback < instant
           /\ session[r].start \in Nat /\ session[r].end \in Nat
<1>1. r \in SessionRows /\ r \in Live /\ RowOK(r)
  BY DEF TypeInv, RowsInv, FrozenRows, Live
<1>2. session[r].start \in 0..LastInstant /\ session[r].end \in 0..LastInstant
  BY <1>1 DEF TypeInv, SessionTypeOK, Rows
<1> QED BY <1>1, <1>2, SessionFacts DEF RowOK

\* Sealed rows that are fewer stay apart.
LEMMA SealedStays ==
    ASSUME TypeInv, TypeInv', Steady, SealedInv, Sealed' \subseteq Sealed
    PROVE  SealedInv'
<1>1. ASSUME NEW r \in Sealed'
      PROVE  r \in Sealed /\ r \in FrozenRows /\ session'[r] = session[r]
  BY DEF Steady, Sealed
<1>2. \A r, s \in Sealed' : r # s => Off(session'[r], session'[s])
  BY <1>1 DEF SealedInv
<1>3. ASSUME NEW r \in Sealed'
      PROVE  /\ Covered(session[r].end)'
             /\ After(session[r].end)' # {} => KeptOrGone(session[r].end)'
  <2> DEFINE e == session[r].end
  <2>1. e \in 0..LastInstant /\ e + Lookback < instant /\ e <= instant
    <3>1. e \in 0..LastInstant /\ e \in Nat /\ e + Lookback < instant /\ instant \in Nat
      BY <1>1, SealedRow, InstantsNat DEF TypeInv, SessionTypeOK
    <3> QED BY <3>1, SessionFacts
  <2>2. Covered(e) /\ (After(e) # {} => KeptOrGone(e))
    BY <1>1 DEF SealedInv
  <2>3. session'[r].end = e
    BY <1>1
  <2> HIDE DEF e
  <2>4. \A t \in Shots' : e < t /\ t < e + MergeGap => t \in After(e)
    BY <2>1, StaysOK
  <2>5. ASSUME NEW t \in Shots', e < t, t < e + MergeGap
        PROVE  \E g \in FrozenRows' : e < session'[g].start /\ session'[g].start <= t
    <3>1. PICK g \in FrozenRows : e < session[g].start /\ session[g].start <= t
      BY <2>2, <2>4, <2>5 DEF Covered
    <3>2. g \in FrozenRows' /\ session'[g] = session[g]
      BY StaysOK DEF Steady
    <3> QED BY <3>1, <3>2
  <2>6. ASSUME NEW t \in Shots', e < t, t < e + MergeGap, e \in Shots'
        PROVE  owner'[e] # 0 /\ session'[owner'[e]].frozen
    <3>1. KeptOrGone(e)
      BY <2>2, <2>4, <2>6
    <3> QED BY <2>1, <2>6, <3>1, StaysOK
  <2> QED BY <2>3, <2>5, <2>6 DEF Covered, After, KeptOrGone
<1> QED BY <1>2, <1>3 DEF SealedInv, Off

-----------------------------------------------------------------------------
(* The drafts of an incremental pass. *)

\* A draft of the tail, the segment it is of, and the rows it met.
TailParts(e, d) ==
    /\ e = TailDraft(d, MetRows)
    /\ e.ids \in SUBSET d.ids /\ d.ids \in SUBSET SeenShots
    /\ Spans(e) /\ DraftOK(SeenShots, d)
    /\ \A r \in MetRows, t \in e.ids : Overlaps(d, r) => t > session[r].end
    /\ \A t \in d.ids : t \in e.ids \/ \E r \in MetRows : Overlaps(d, r) /\ ~(t > session[r].end)
    /\ e.open = (d.end = Max(SeenShots) /\ instant < d.end + MergeGap)
    /\ d.ids \subseteq Nat /\ {e.start, e.end, d.start, d.end} \subseteq Nat

\* A draft of the incremental part is a track less the frozen rows it meets.
LEMMA TailDraftParts ==
    ASSUME TypeInv, NEW e \in IncrementalDrafts(instant)
    PROVE  \E d \in Segment(SeenShots, instant) : TailParts(e, d)
<1>1. PICK d \in Segment(SeenShots, instant) :
        e = TailDraft(d, MetRows) /\ e.ids = TailOf(d, MetRows) /\ e.open = d.open
  BY TailDraftOK
<1>2. Spans(e)
  BY TailDraftOK
<1>3. SeenShots \in SUBSET Instants
  BY DEF SeenShots, Shots
<1>4. DraftOK(SeenShots, d) /\ d.open = (d.end = Max(SeenShots) /\ instant < d.end + MergeGap)
  BY <1>3, SegmentOK
<1>5. e.ids \in SUBSET d.ids /\ d.ids \in SUBSET SeenShots
  BY <1>1, <1>4 DEF DraftOK, TailOf
<1>6. d.ids \subseteq Nat /\ {e.start, e.end, d.start, d.end} \subseteq Nat
  BY <1>2, <1>3, <1>4, <1>5, InstantsNat DEF Spans, DraftOK
<1> QED BY <1>1, <1>2, <1>4, <1>5, <1>6 DEF TailOf, TailParts

\* Two of them do not meet.
LEMMA TailDraftsApart ==
    ASSUME TypeInv, NEW e \in IncrementalDrafts(instant), NEW f \in IncrementalDrafts(instant), e # f
    PROVE  Off(e, f)
<1>1a. PICK d \in Segment(SeenShots, instant) : TailParts(e, d)
  BY TailDraftParts
<1>1. /\ e = TailDraft(d, MetRows) /\ e.ids \in SUBSET d.ids /\ Spans(e)
      /\ {e.start, e.end, d.start, d.end} \subseteq Nat
  BY <1>1a DEF TailParts
<1>2a. PICK g \in Segment(SeenShots, instant) : TailParts(f, g)
  BY TailDraftParts
<1>2. /\ f = TailDraft(g, MetRows) /\ f.ids \in SUBSET g.ids /\ Spans(f)
      /\ {f.start, f.end, g.start, g.end} \subseteq Nat
  BY <1>2a DEF TailParts
<1>3. d # g
  BY <1>1, <1>2
<1>4. SeenShots \in SUBSET Instants
  BY DEF SeenShots, Shots
<1>5. \A u \in d.ids, v \in g.ids : (d.start < g.start /\ u < v) \/ (g.start < d.start /\ v < u)
  BY <1>3, <1>4, SegmentApart
<1>6. e.end \in d.ids /\ e.start \in d.ids /\ f.start \in g.ids /\ f.end \in g.ids
  BY <1>1, <1>2 DEF Spans
<1>7. (d.start < g.start /\ e.end < f.start) \/ (g.start < d.start /\ f.start < e.end)
  BY <1>5, <1>6
<1>8. (d.start < g.start /\ e.start < f.end) \/ (g.start < d.start /\ f.end < e.start)
  BY <1>5, <1>6
<1> QED BY <1>1, <1>2, <1>7, <1>8 DEF Off

\* A draft lies after the frozen rows, also after the one that ends where the
\* tail begins: the frame after that row's last, if it is near enough to be of
\* the draft, is covered by a frozen row which the draft then met.
LEMMA TailDraftClear ==
    ASSUME TypeInv, SealedInv, NEW e \in IncrementalDrafts(instant), NEW r \in Sealed
    PROVE  Off(e, session[r])
<1>1a. PICK d \in Segment(SeenShots, instant) : TailParts(e, d)
  BY TailDraftParts
<1>1. /\ e.ids \in SUBSET d.ids /\ d.ids \in SUBSET SeenShots
      /\ Spans(e) /\ DraftOK(SeenShots, d)
      /\ \A q \in MetRows, t \in e.ids : Overlaps(d, q) => t > session[q].end
      /\ d.ids \subseteq Nat /\ {e.start, e.end, d.start, d.end} \subseteq Nat
  BY <1>1a DEF TailParts
<1>2. r \in FrozenRows /\ r \in Live
  BY DEF Sealed, FrozenRows
<1>3. /\ session[r].start \in Nat /\ session[r].end \in Nat /\ session[r].start <= session[r].end
      /\ session[r].end + Lookback < instant
  BY <1>2, SealedRow
<1>4. TailFrom \in Nat /\ instant \in Nat
  BY TailFromOK, InstantsNat DEF TypeInv, SessionTypeOK
<1>5. e.start \in d.ids /\ e.end \in d.ids /\ e.start \in e.ids
      /\ \A t \in d.ids : d.start <= t /\ t <= d.end /\ TailFrom <= t /\ t <= instant /\ t \in Shots
  BY <1>1 DEF Spans, DraftOK, SeenShots
<1>6. CASE session[r].end > TailFrom
  <2>1. r \in MetRows
    BY <1>2, <1>3, <1>4, <1>6, SessionFacts DEF MetRows, FrozenRows
  <2>2. CASE Overlaps(d, r)
    <3>1. e.start > session[r].end
      BY <1>1, <1>5, <2>1, <2>2
    <3> QED BY <3>1, <1>1, <1>3 DEF Off
  <2>3. CASE ~Overlaps(d, r)
    <3>1. d.start > session[r].end \/ d.end < session[r].start
      BY <2>3, <1>1, <1>3 DEF Overlaps
    <3> QED BY <3>1, <1>1, <1>3, <1>5 DEF Off
  <2> QED BY <2>2, <2>3
<1>7. CASE ~(session[r].end > TailFrom)
  <2>1. SUFFICES ASSUME e.start = session[r].end PROVE FALSE
    BY <1>1, <1>3, <1>4, <1>5, <1>7 DEF Off
  <2>2. d.start = session[r].end /\ TailFrom = session[r].end
    <3>1. d.start \in d.ids
      BY <1>1 DEF DraftOK
    <3> QED BY <3>1, <2>1, <1>1, <1>3, <1>4, <1>5, <1>7
  <2>3. PICK n \in d.ids : d.start < n /\ n < d.start + MergeGap
    BY <1>1 DEF DraftOK
  <2>4. n \in After(session[r].end)
    BY <2>2, <2>3, <1>5 DEF After
  <2>5. PICK g \in FrozenRows : session[r].end < session[g].start /\ session[g].start <= n
    BY <2>4 DEF SealedInv, Covered
  <2>6. session[g].start \in Nat /\ session[g].end \in Nat /\ session[g].start <= session[g].end
    BY SealedRow
  <2>7. n \in Nat /\ n <= d.end /\ n <= instant
    BY <1>1, <1>5
  <2>8. g \in MetRows
    BY <1>3, <1>4, <2>2, <2>5, <2>6, <2>7 DEF MetRows, FrozenRows
  <2>9. Overlaps(d, g)
    BY <1>1, <1>3, <2>2, <2>5, <2>6, <2>7 DEF Overlaps
  <2>10. e.start > session[g].end
    BY <1>1, <1>5, <2>8, <2>9
  <2> QED BY <2>1, <2>5, <2>6, <2>10, <1>3
<1> QED BY <1>6, <1>7

\* Nothing goes on with a draft: what is left of one ends where it did.
LEMMA TailDraftEnds ==
    ASSUME TypeInv, NEW e \in IncrementalDrafts(instant)
    PROVE  After(e.end) = {}
<1> SUFFICES ASSUME NEW t \in Shots, e.end < t, t < e.end + MergeGap PROVE FALSE
  BY DEF After
<1>1a. PICK d \in Segment(SeenShots, instant) : TailParts(e, d)
  BY TailDraftParts
<1>1. /\ e.ids \in SUBSET d.ids /\ d.ids \in SUBSET SeenShots
      /\ Spans(e) /\ DraftOK(SeenShots, d)
      /\ \A q \in MetRows, u \in e.ids : Overlaps(d, q) => u > session[q].end
      /\ \A u \in d.ids : u \in e.ids
                          \/ \E q \in MetRows : Overlaps(d, q) /\ ~(u > session[q].end)
      /\ d.ids \subseteq Nat /\ {e.start, e.end, d.start, d.end} \subseteq Nat
  BY <1>1a DEF TailParts
<1>2. e.end \in e.ids /\ \A u \in e.ids : u <= e.end
  BY <1>1 DEF Spans
<1>3. t \in Nat /\ t <= instant /\ TailFrom \in Nat
  BY TailFromOK, InstantsNat DEF Shots, TypeInv, ClockInv
<1>4. TailFrom <= e.end
  BY <1>1, <1>2 DEF SeenShots
<1>5. t \in SeenShots
  BY <1>1, <1>3, <1>4 DEF SeenShots
<1>6. t \in d.ids
  BY <1>1, <1>2, <1>5 DEF DraftOK
<1>7. t \notin e.ids
  BY <1>1, <1>2, <1>3
<1>8. PICK q \in MetRows : Overlaps(d, q) /\ ~(t > session[q].end)
  BY <1>1, <1>6, <1>7
<1>9. e.end > session[q].end
  BY <1>1, <1>2, <1>8
<1>10. session[q].end \in Nat
  BY SealedRow DEF MetRows, FrozenRows
<1> QED BY <1>1, <1>3, <1>8, <1>9, <1>10

\* The drafts a pass begins with meet neither each other nor a sealed row.
LEMMA PassBeginsDisjoint ==
    ASSUME DisjointInv, PassBegins
    PROVE  SealedInv' /\ TailInv' /\ ChunkInv'
<1>1. TypeInv /\ SealedInv /\ TypeInv' /\ Steady
  BY PassBeginsType DEF DisjointInv
<1>2. /\ pass'.pc = "incremental"
      /\ UNCHANGED <<instant, shot, owner, session, checkpoint, neglected, torn, upsets>>
      /\ \A c \in plan' : c.op # "drop" => c.draft \in IncrementalDrafts(instant)
      /\ \A r \in Unfrozen : \E c \in plan' : c.op \in {"put", "drop"} /\ c.row = r
      /\ \A c, o \in plan' : c.op = "put" /\ o.op = "put" /\ c # o => c.draft # o.draft
  BY <1>1, PassBeginsIs
<1>3. Sealed' = Sealed /\ Unfrozen' = Unfrozen /\ Shots' = Shots
  BY <1>2 DEF Sealed, FrozenRows, Unfrozen, Live, Shots
<1>4. SealedInv'
  BY <1>1, <1>3, SealedStays
<1>5. Settled' = {}
  BY <1>2, <1>3 DEF Settled, Pending
<1>6. \A c, d \in Puts' : c # d => Off(c.draft, d.draft)
  BY <1>1, <1>2, TailDraftsApart DEF Puts
<1>7. \A c \in Puts', r \in Sealed' : Off(c.draft, session'[r])
  BY <1>1, <1>2, <1>3, TailDraftClear DEF Puts
<1>8. \A c \in Puts' : After(c.draft.end)' = {}
  <2>1. ASSUME NEW c \in Puts' PROVE After(c.draft.end) = {}
    BY <1>1, <1>2, TailDraftEnds DEF Puts
  <2> QED BY <2>1, <1>3 DEF After
<1>9. TailInv'
  BY <1>5, <1>6, <1>7, <1>8 DEF TailInv, Off
<1>10. ChunkInv'
  BY <1>2 DEF ChunkInv
<1> QED BY <1>4, <1>9, <1>10

-----------------------------------------------------------------------------
(* The calls of an incremental pass, and what is frozen after them. *)

\* A pass with fewer calls left, and no row more that it is done with, is still
\* one whose drafts meet nothing sealed.
LEMMA TailStays ==
    ASSUME TypeInv, TypeInv', Steady, TailInv, pass.pc \in {"incremental", "freeze"}, pass.whole,
           Puts' \subseteq Puts, Sealed' \subseteq Sealed,
           \A r \in Settled' : r \in Settled /\ session'[r] = session[r]
    PROVE  TailInv'
<1>1. /\ \A c, d \in Puts : c # d => Off(c.draft, d.draft)
      /\ \A c \in Puts, r \in Settled \cup Sealed : Off(c.draft, session[r])
      /\ \A r \in Settled, s \in Settled \cup Sealed : r # s => Off(session[r], session[s])
      /\ \A c \in Puts : After(c.draft.end) = {}
      /\ \A r \in Settled : After(session[r].end) = {}
  BY DEF TailInv
<1>2. \A r \in Sealed' : session'[r] = session[r]
  BY DEF Steady, Sealed
<1>3. \A e \in 0..LastInstant : After(e) = {} => \A t \in Shots' : ~(e < t /\ t < e + MergeGap)
  BY StaysOK
<1>4. \A c \in Puts' : After(c.draft.end)' = {}
  <2>1. ASSUME NEW c \in Puts' PROVE c.draft.end \in 0..LastInstant /\ After(c.draft.end) = {}
    BY <1>1, CallFields DEF Puts, TypeInv, SessionTypeOK, Drafts
  <2> QED BY <2>1, <1>3 DEF After
<1>5. \A r \in Settled' : After(session[r].end)' = {}
  <2>1. ASSUME NEW r \in Settled'
        PROVE session[r].end \in 0..LastInstant /\ After(session[r].end) = {}
    BY <1>1 DEF Settled, Unfrozen, Live, TypeInv, SessionTypeOK, Rows
  <2> QED BY <2>1, <1>3 DEF After
<1> QED BY <1>1, <1>2, <1>4, <1>5 DEF TailInv, Off

\* A step that changes no row but one that is not frozen freezes none.
LEMMA SealedSame ==
    ASSUME TypeInv, TypeInv', Steady, torn' = torn, FrozenRows' \subseteq FrozenRows
    PROVE  Sealed' = Sealed
BY StaysOK DEF Sealed

\* A step that leaves the rows alone settles none.
LEMMA SettledSame ==
    ASSUME UNCHANGED <<session, torn>>, \A c \in plan : c.op \in {"put", "drop"} => c \in plan'
    PROVE  \A r \in Settled' : r \in Settled /\ session'[r] = session[r]
BY DEF Settled, Pending, Unfrozen, Live

\* One step at a time, what is sealed and what a pass is about to write stay apart:
\* letting stale frames go,
LEMMA ReleaseDisjoint ==
    ASSUME DisjointInv, NEW c \in plan, Release(c)
    PROVE  SealedInv' /\ TailInv' /\ ChunkInv'
<1>1. TypeInv /\ SealedInv /\ TailInv /\ TypeInv' /\ Steady
  BY ReleaseType DEF DisjointInv
<1>2. /\ c.op = "release" /\ plan' = plan \ {c} /\ UNCHANGED <<session, pass, torn>>
  BY DEF Release, NextCall, Done
<1>3. pass.pc = "incremental" /\ pass.whole
  BY <1>1, <1>2 DEF TypeInv, SessionTypeOK, CallsInv, CallOK, First
<1>4. Sealed' \subseteq Sealed /\ Puts' \subseteq Puts
  BY <1>2 DEF Sealed, FrozenRows, Live, Puts
<1>5. \A r \in Settled' : r \in Settled /\ session'[r] = session[r]
  BY <1>2, SettledSame
<1>6. TailInv'
  BY <1>1, <1>3, <1>4, <1>5, TailStays
<1>7. SealedInv' /\ ChunkInv'
  BY <1>1, <1>2, <1>3, <1>4, SealedStays DEF ChunkInv
<1> QED BY <1>6, <1>7

\* giving a row its frames,
LEMMA AssignDisjoint ==
    ASSUME DisjointInv, NEW c \in plan, Assign(c)
    PROVE  SealedInv' /\ TailInv' /\ ChunkInv'
<1>1. TypeInv /\ SealedInv /\ TailInv /\ TypeInv' /\ Steady
  BY AssignType DEF DisjointInv
<1>2. /\ c.op = "assign" /\ plan' = plan \ {c} /\ UNCHANGED <<session, pass, torn>>
      /\ pass.pc = "incremental"
  BY DEF Assign, NextCall, Done
<1>3. pass.whole
  BY <1>1, <1>2 DEF TypeInv, SessionTypeOK, CallsInv, CallOK
<1>4. Sealed' \subseteq Sealed /\ Puts' \subseteq Puts
  BY <1>2 DEF Sealed, FrozenRows, Live, Puts
<1>5. \A r \in Settled' : r \in Settled /\ session'[r] = session[r]
  BY <1>2, SettledSame
<1>6. TailInv'
  BY <1>1, <1>2, <1>3, <1>4, <1>5, TailStays
<1>7. SealedInv' /\ ChunkInv'
  BY <1>1, <1>2, <1>3, <1>4, SealedStays DEF ChunkInv
<1> QED BY <1>6, <1>7

\* the end of the incremental part, which has left no row it was not done with,
LEMMA PassFreezesDisjoint ==
    ASSUME DisjointInv, PassFreezes
    PROVE  SealedInv' /\ TailInv' /\ ChunkInv'
<1>1. TypeInv /\ SealedInv /\ TailInv /\ TypeInv' /\ Steady
  BY PassFreezesType DEF DisjointInv
<1>2. /\ plan' = plan /\ UNCHANGED <<session, torn>>
      /\ pass.pc = "incremental" /\ pass' = [pass EXCEPT !.pc = "freeze"]
  BY DEF PassFreezes
<1>3. pass'.pc = "freeze" /\ pass'.whole = pass.whole
  BY <1>1, <1>2 DEF TypeInv, SessionTypeOK, Passes
<1>4. Sealed' \subseteq Sealed /\ Puts' \subseteq Puts
  BY <1>2 DEF Sealed, FrozenRows, Live, Puts
<1>5. \A r \in Settled' : r \in Settled /\ session'[r] = session[r]
  BY <1>2, SettledSame
<1>6. TailInv'
  <2>1. CASE pass.whole
    BY <2>1, <1>1, <1>2, <1>4, <1>5, TailStays
  <2>2. CASE ~pass.whole
    BY <2>2, <1>3 DEF TailInv
  <2> QED BY <2>1, <2>2
<1>7. SealedInv' /\ ChunkInv'
  BY <1>1, <1>3, <1>4, SealedStays DEF ChunkInv
<1> QED BY <1>6, <1>7

\* dropping a row without a draft,
LEMMA DropDisjoint ==
    ASSUME DisjointInv, NEW c \in plan, Drop(c)
    PROVE  SealedInv' /\ TailInv' /\ ChunkInv'
<1>1. /\ TypeInv /\ SealedInv /\ TailInv /\ TypeInv' /\ Steady
      /\ pass.pc = "incremental" /\ c.row \in SessionRows /\ session'[c.row] = NoRow
      /\ \A s \in SessionRows : s # c.row => session'[s] = session[s]
  BY DropType DEF DisjointInv
<1>2. /\ c.op = "drop" /\ plan' = plan \ {c} /\ UNCHANGED <<pass, torn>>
  BY DEF Drop, NextCall, Done
<1>3. pass.whole
  BY <1>1, <1>2 DEF TypeInv, SessionTypeOK, CallsInv, CallOK
<1>4. FrozenRows' \subseteq FrozenRows /\ c.row \notin Live'
  BY <1>1 DEF FrozenRows, Live, NoRow
<1>5. Sealed' \subseteq Sealed /\ Puts' \subseteq Puts
  BY <1>2, <1>4 DEF Sealed, Puts
<1>6. ASSUME NEW r \in Settled' PROVE r \in Settled /\ session'[r] = session[r]
  <2>1. r \in Live' /\ ~session'[r].frozen /\ r \notin Pending' /\ session'[r].end # 0
    BY DEF Settled, Unfrozen
  <2>2. r # c.row /\ session'[r] = session[r] /\ r \in Unfrozen
    BY <1>1, <1>4, <2>1 DEF Live, Unfrozen
  <2>3. r \notin Pending
    BY <1>2, <2>1, <2>2 DEF Pending
  <2> QED BY <2>1, <2>2, <2>3 DEF Settled
<1>7. TailInv'
  BY <1>1, <1>3, <1>5, <1>6, TailStays
<1>8. SealedInv' /\ ChunkInv'
  BY <1>1, <1>2, <1>5, SealedStays DEF ChunkInv
<1> QED BY <1>7, <1>8

\* What a call of a chunk relies on, while no row is frozen.
LEMMA ComingStays ==
    ASSUME TypeInv, TypeInv', Steady, pass.pc = "backfill", NEW c \in plan, c.op # "drop",
           Covered(c.draft.end)
    PROVE  /\ KeptOrGone(c.draft.start) => KeptOrGone(c.draft.start)'
           /\ Covered(c.draft.end)'
<1>1. c.draft \in Drafts /\ Spans(c.draft)
  BY CallFields DEF TypeInv, SessionTypeOK, CallsInv, CallOK
<1> DEFINE b == c.draft.start  e == c.draft.end
<1>2. b \in 0..LastInstant /\ e \in 0..LastInstant
  BY <1>1 DEF Drafts
<1>3. Covered(e)
  OBVIOUS
<1> HIDE DEF b, e
<1>4. \A t \in Shots' : e < t /\ t < e + MergeGap => t \in After(e)
  BY <1>2, StaysOK
<1>5. ASSUME NEW t \in Shots', e < t, t < e + MergeGap
      PROVE  \E g \in FrozenRows' : e < session'[g].start /\ session'[g].start <= t
  <2>1. PICK g \in FrozenRows : e < session[g].start /\ session[g].start <= t
    BY <1>3, <1>4, <1>5 DEF Covered
  <2>2. g \in FrozenRows' /\ session'[g] = session[g]
    BY StaysOK DEF Steady
  <2> QED BY <2>1, <2>2
<1>6. Covered(e)'
  BY <1>5 DEF Covered, After
<1>7. ASSUME KeptOrGone(b), b \in Shots' PROVE owner'[b] # 0 /\ session'[owner'[b]].frozen
  <2>1. b \in Shots
    BY <1>7 DEF Steady
  <2>2. b <= instant
    BY <2>1 DEF TypeInv, ClockInv
  <2> QED BY <1>2, <1>7, <2>2, StaysOK
<1>8. KeptOrGone(b) => KeptOrGone(b)'
  BY <1>7 DEF KeptOrGone
<1> QED BY <1>6, <1>8 DEF b, e

\* What is so of a draft to come stays so while no row changes.
LEMMA ClearStays ==
    ASSUME TypeInv, TypeInv', Steady, pass.pc = "backfill", NEW c \in Coming, ClearOK(c),
           UNCHANGED <<session, torn>>, pass'.now = pass.now
    PROVE  ClearOK(c)'
<1>1. c \in plan /\ c.op # "drop"
  BY DEF Coming
<1>2. /\ KeptOrGone(c.draft.start) => KeptOrGone(c.draft.start)'
      /\ Covered(c.draft.end)'
  BY <1>1, ComingStays DEF ClearOK
<1>3. Sealed' = Sealed
  BY DEF Sealed, FrozenRows, Live
<1> QED BY <1>2, <1>3 DEF ClearOK, RowOf, Off

\* The calls left of a chunk, where it freezes nothing,
LEMMA ChunkStays ==
    ASSUME TypeInv, TypeInv', Steady, ChunkInv, pass.pc \in {"open", "backfill"}, pass.whole,
           UNCHANGED <<session, torn>>, pass'.now = pass.now,
           \A c \in plan' : c.op # "own", Coming' \subseteq Coming,
           \A c \in DueCalls : \E d \in DueCalls' : d.row = c.row,
           \A c \in Coming' : StageOK(c)'
    PROVE  ChunkInv'
<1>1. /\ \A r \in Unfrozen : Due(r) => \E c \in DueCalls : c.row = r
      /\ \A c, d \in Coming : c # d => Off(c.draft, d.draft)
      /\ \A c \in Coming : ComingOK(c)
  BY DEF ChunkInv
<1>2. Unfrozen' = Unfrozen
  BY DEF Unfrozen, Live
<1>3. \A r \in Unfrozen' : Due(r)' => \E c \in DueCalls' : c.row = r
  BY <1>1, <1>2 DEF Due
<1>4. ASSUME NEW c \in Coming' PROVE ComingOK(c)'
  <2>1. pass.pc = "backfill" /\ c \in Coming /\ ClearOK(c)
    BY <1>1 DEF ComingOK, Coming, TypeInv, SessionTypeOK
  <2>2. ClearOK(c)'
    BY <2>1, ClearStays
  <2> QED BY <2>2 DEF ComingOK
<1>5. \A c, d \in Coming' : c # d => Off(c.draft, d.draft)
  BY <1>1
<1> QED BY <1>3, <1>4, <1>5 DEF ChunkInv, Off

\* or a draft's calls go on.
LEMMA ChunkMoves ==
    ASSUME TypeInv, TypeInv', Steady, ChunkInv, pass.pc = "backfill", pass.whole,
           UNCHANGED <<session, torn>>, pass'.now = pass.now,
           NEW c \in plan, c.op \in {"new", "assign"},
           NEW a, a.op \in {"assign", "freeze"}, a.row = c.row, a.draft = c.draft,
           plan' = (plan \ {c}) \cup {a}, StageOK(a)'
    PROVE  ChunkInv'
<1>1. /\ \A o \in plan : o.op # "own"
      /\ \A r \in Unfrozen : Due(r) => \E o \in DueCalls : o.row = r
      /\ \A o, d \in Coming : o # d => Off(o.draft, d.draft)
      /\ \A o \in Coming : ComingOK(o)
  BY DEF ChunkInv
<1>2. c \in Coming /\ Coming' = (Coming \ {c}) \cup {a}
  BY DEF Coming
<1>3. \A o \in plan : o.op \in First => o = c
  BY DEF TypeInv, CallsInv, First
<1>4. \A o \in Coming \ {c} : o.op = "put"
  BY <1>3 DEF Coming, First
<1>5. Unfrozen' = Unfrozen /\ Sealed' = Sealed
  BY DEF Unfrozen, Sealed, FrozenRows, Live
<1>6. ASSUME NEW r \in Unfrozen', Due(r)' PROVE \E o \in DueCalls' : o.row = r
  <2>1. PICK o \in DueCalls : o.row = r
    BY <1>1, <1>5, <1>6 DEF Due
  <2>2. o = c
    BY <1>3, <2>1 DEF DueCalls, First
  <2>3. a \in DueCalls'
    BY DEF DueCalls
  <2> QED BY <2>1, <2>2, <2>3
<1>7. \A o, d \in Coming' : o # d => Off(o.draft, d.draft)
  BY <1>1, <1>2 DEF Off
<1>8. \A o \in Coming : ClearOK(o)'
  BY <1>1, ClearStays DEF ComingOK
<1>9. ClearOK(a)'
  <2>1. ClearOK(c)' /\ ClearOK(c)
    BY <1>1, <1>2, <1>8 DEF ComingOK
  <2>2. session'[a.row] = RowOf(a.draft)
    BY <2>1 DEF ClearOK
  <2>3. /\ KeptOrGone(c.draft.start)' \/ \A r \in Sealed' : Off(c.draft, session'[r])
        /\ Covered(c.draft.end)' /\ c.draft.end + Lookback < pass'.now /\ ~c.draft.open
    BY <2>1 DEF ClearOK, Off
  <2> DEFINE b == a.draft.start  e == a.draft.end
  <2>4. b = c.draft.start /\ e = c.draft.end
    OBVIOUS
  <2>5. KeptOrGone(b)' \/ \A r \in Sealed' : Off(c.draft, session'[r])
    BY <2>3, <2>4
  <2>6. Covered(e)'
    BY <2>3, <2>4
  <2> QED BY <2>2, <2>3, <2>5, <2>6 DEF ClearOK, RowOf, Off
<1>10. ASSUME NEW o \in Coming' PROVE ComingOK(o)'
  <2>1. CASE o = a
    BY <1>9, <2>1 DEF ComingOK
  <2>2. CASE o \in Coming \ {c}
    BY <1>4, <1>8, <2>2 DEF ComingOK, StageOK
  <2> QED BY <1>2, <2>1, <2>2
<1>11. \A o \in plan' : o.op # "own"
  BY <1>1
<1> QED BY <1>6, <1>7, <1>10, <1>11 DEF ChunkInv, Off

\* writing a draft's row.
LEMMA PutDisjoint ==
    ASSUME DisjointInv, NEW c \in plan, Put(c)
    PROVE  SealedInv' /\ TailInv' /\ ChunkInv'
<1>1. TypeInv /\ SealedInv /\ TailInv /\ ChunkInv /\ TypeInv' /\ Steady
  BY PutType DEF DisjointInv
<1>2. PICK r \in SessionRows :
        /\ r = (IF c.row = 0 THEN NextRow ELSE c.row)
        /\ ~session[r].frozen
        /\ session' = [session EXCEPT ![r] = RowOf(c.draft)]
        /\ plan' = (plan \ {c}) \cup {Call(PutOp, r, c.draft)}
  BY <1>1, PutType
<1>3. /\ c.op = "put" /\ NextCall("put", c) /\ UNCHANGED <<instant, shot, owner, pass, torn>>
  BY DEF Put, NextCall
<1>4. c.draft \in Drafts /\ c \in Calls /\ session \in [SessionRows -> Rows]
  BY <1>1, CallFields DEF TypeInv, SessionTypeOK
<1> DEFINE a == Call(PutOp, r, c.draft)
<1>5. /\ a.op = PutOp /\ a.row = r /\ a.draft = c.draft
      /\ a.op \in {"assign", "new"} /\ (pass.pc = "backfill" => a.op = "new")
  BY DEF Call, PutOp
<1>6. plan' = (plan \ {c}) \cup {a}
  BY <1>2
<1> HIDE DEF a
<1>7. /\ session'[r] = RowOf(c.draft)
      /\ \A s \in SessionRows : s # r => session'[s] = session[s]
  BY <1>2, <1>4
<1>8. /\ RowOf(c.draft).live /\ ~RowOf(c.draft).frozen
      /\ RowOf(c.draft).start = c.draft.start
      /\ RowOf(c.draft).end = IF c.draft.open THEN 0 ELSE c.draft.end
  BY <1>4, RowOfOK
<1>9. FrozenRows' \subseteq FrozenRows /\ Shots' = Shots
  BY <1>3, <1>7, <1>8 DEF FrozenRows, Live, Shots
<1>10. Sealed' = Sealed /\ r \notin Sealed /\ \A s \in Sealed : session'[s] = session[s]
  BY <1>1, <1>2, <1>3, <1>9, SealedSame DEF Sealed, FrozenRows, Steady
<1>11. SealedInv'
  BY <1>1, <1>10, SealedStays
<1>12. \A o \in plan : o.op \notin First
  BY <1>3, AssignFirst
<1>13. ASSUME pass.pc = "incremental" PROVE TailInv' /\ ChunkInv'
  <2>1. pass.whole
    BY <1>1, <1>13 DEF TypeInv, CallsInv
  <2>2. /\ \A o, d \in Puts : o # d => Off(o.draft, d.draft)
        /\ \A o \in Puts, s \in Settled \cup Sealed : Off(o.draft, session[s])
        /\ \A s \in Settled, q \in Settled \cup Sealed : s # q => Off(session[s], session[q])
        /\ \A o \in Puts : After(o.draft.end) = {}
        /\ \A s \in Settled : After(session[s].end) = {}
    BY <1>1, <1>13, <2>1 DEF TailInv
  <2>3. Puts' = Puts \ {c} /\ c \in Puts
    BY <1>3, <1>5, <1>6 DEF Puts
  <2>4. ASSUME NEW s \in Settled', s # r
        PROVE  s \in Settled /\ session'[s] = session[s]
    <3>1. s \in SessionRows /\ s \in Live' /\ ~session'[s].frozen /\ s \notin Pending' /\ session'[s].end # 0
      BY DEF Settled, Unfrozen, Live
    <3>2. session'[s] = session[s] /\ s \in Unfrozen
      BY <1>7, <2>4, <3>1 DEF Live, Unfrozen
    <3>3. s # c.row
      BY <1>2, <2>4, <3>1, SessionFacts DEF SessionRows
    <3>4. s \notin Pending
      BY <1>6, <3>1, <3>3 DEF Pending
    <3> QED BY <3>1, <3>2, <3>4 DEF Settled
  <2>5. ASSUME r \in Settled'
        PROVE  session'[r].start = c.draft.start /\ session'[r].end = c.draft.end
    BY <1>7, <1>8, <2>5 DEF Settled
  <2>6. \A o \in Puts', s \in Settled' \cup Sealed' : Off(o.draft, session'[s])
    <3>1. ASSUME NEW o \in Puts', NEW s \in Settled', s # r PROVE Off(o.draft, session'[s])
      BY <2>2, <2>3, <2>4, <3>1
    <3>2. ASSUME NEW o \in Puts', r \in Settled' PROVE Off(o.draft, session'[r])
      BY <2>2, <2>3, <2>5, <3>2 DEF Off
    <3>3. ASSUME NEW o \in Puts', NEW s \in Sealed' PROVE Off(o.draft, session'[s])
      BY <1>10, <2>2, <2>3
    <3> QED BY <3>1, <3>2, <3>3
  <2>7. \A s \in Settled', q \in Settled' \cup Sealed' : s # q => Off(session'[s], session'[q])
    <3>1. ASSUME NEW s \in Settled', s # r, NEW q \in Settled' \cup Sealed', q # r, s # q
          PROVE  Off(session'[s], session'[q])
      <4>1. q \in Settled \cup Sealed /\ session'[q] = session[q]
        BY <1>10, <2>4, <3>1
      <4> QED BY <2>2, <2>4, <3>1, <4>1
    <3>2. ASSUME r \in Settled', NEW q \in Settled' \cup Sealed', q # r
          PROVE  Off(session'[r], session'[q]) /\ Off(session'[q], session'[r])
      <4>1. q \in Settled \cup Sealed /\ session'[q] = session[q]
        BY <1>10, <2>4, <3>2
      <4>2. Off(c.draft, session[q])
        BY <2>2, <2>3, <4>1
      <4> QED BY <2>5, <3>2, <4>1, <4>2 DEF Off
    <3> QED BY <3>1, <3>2, <1>10
  <2>8. \A o \in Puts' : After(o.draft.end)' = {}
    BY <1>9, <2>2, <2>3 DEF After
  <2>9. ASSUME NEW s \in Settled' PROVE After(session[s].end)' = {}
    <3>1. CASE s = r
      <4>1. After(c.draft.end) = {}
        BY <2>2, <2>3
      <4> QED BY <3>1, <4>1, <1>9, <2>5 DEF After
    <3>2. CASE s # r
      <4>1. After(session[s].end) = {} /\ session'[s] = session[s]
        BY <2>2, <2>4, <3>2
      <4> QED BY <4>1, <1>9 DEF After
    <3> QED BY <3>1, <3>2
  <2>10. TailInv'
    BY <2>2, <2>3, <2>6, <2>7, <2>8, <2>9 DEF TailInv, Off
  <2> QED BY <1>3, <1>13, <2>10 DEF ChunkInv
<1>14. ASSUME pass.pc = "backfill", pass.whole PROVE TailInv' /\ ChunkInv'
  <2>1. /\ \A o \in plan : o.op # "own"
        /\ \A s \in Unfrozen : Due(s) => \E o \in DueCalls : o.row = s
        /\ \A o, d \in Coming : o # d => Off(o.draft, d.draft)
        /\ \A o \in Coming : ComingOK(o)
    BY <1>1, <1>14 DEF ChunkInv
  <2>2. Coming' = (Coming \ {c}) \cup {a} /\ c \in Coming
    BY <1>3, <1>5, <1>6 DEF Coming
  <2>3. \A s \in Unfrozen' : Due(s)' => \E o \in DueCalls' : o.row = s
    <3>1. ASSUME NEW s \in Unfrozen', Due(s)', s # r PROVE FALSE
      <4>1. s \in Unfrozen /\ Due(s)
        BY <1>3, <1>7, <3>1 DEF Unfrozen, Live, Due
      <4> QED BY <2>1, <4>1, <1>12 DEF DueCalls, First
    <3>2. a \in DueCalls'
      BY <1>5, <1>6 DEF DueCalls
    <3> QED BY <3>1, <3>2, <1>5
  <2>4. \A o, d \in Coming' : o # d => Off(o.draft, d.draft)
    BY <2>1, <2>2, <1>5 DEF Off
  <2>5. ASSUME NEW o \in Coming
        PROVE  /\ KeptOrGone(o.draft.start)' \/ \A s \in Sealed' : Off(o.draft, session'[s])
               /\ Covered(o.draft.end)'
               /\ o.draft.end + Lookback < pass'.now
               /\ ~o.draft.open
    <3>1. o \in plan /\ o.op # "drop" /\ ComingOK(o)
      BY <2>1 DEF Coming
    <3>2. /\ KeptOrGone(o.draft.start) => KeptOrGone(o.draft.start)'
          /\ Covered(o.draft.end)'
      BY <1>1, <1>14, <3>1, ComingStays DEF ComingOK, ClearOK
    <3> QED BY <1>3, <1>10, <3>1, <3>2 DEF ComingOK, ClearOK
  <2>6. ASSUME NEW o \in Coming' PROVE ComingOK(o)'
    <3>1. CASE o \in Coming /\ o # a
      <4>1. o.op = "put"
        BY <1>12, <3>1 DEF Coming, First
      <4> QED BY <2>5, <3>1, <4>1 DEF ComingOK, ClearOK, StageOK, Off
    <3>2. CASE o = a
      <4>1. o.draft = c.draft /\ session'[o.row] = RowOf(o.draft)
        BY <1>5, <1>7, <3>2
      <4>2. /\ KeptOrGone(o.draft.start)' \/ \A s \in Sealed' : Off(o.draft, session'[s])
            /\ Covered(o.draft.end)'
            /\ o.draft.end + Lookback < pass'.now
            /\ ~o.draft.open
        <5> DEFINE b == o.draft.start  e == o.draft.end
        <5>1. b = c.draft.start /\ e = c.draft.end
          BY <4>1
        <5>2. KeptOrGone(b)' \/ \A s \in Sealed' : Off(c.draft, session'[s])
          BY <2>2, <2>5, <5>1
        <5>3. Covered(e)'
          BY <2>2, <2>5, <5>1
        <5> QED BY <2>2, <2>5, <4>1, <5>2, <5>3
      <4>3. ClearOK(o)'
        BY <4>1, <4>2 DEF ClearOK, RowOf, Off
      <4>4. OwnedBy(r) = {}
        <5>1. c.row = 0
          BY <1>1, <1>3, <1>14 DEF TypeInv, CallsInv, CallOK
        <5>2. r \notin Live /\ r # 0
          BY <1>1, <1>2, <5>1, NextRowOK
        <5> QED BY <1>1, <5>2 DEF TypeInv, SessionTypeOK, OwnedBy, Shots
      <4>5. o.op = "new" /\ o.row = r /\ OwnedBy(r)' = {}
        BY <1>3, <1>5, <1>9, <1>14, <3>2, <4>4 DEF OwnedBy
      <4>6. StageOK(o)'
        BY <4>5 DEF StageOK, OwnedBy
      <4> QED BY <4>3, <4>6 DEF ComingOK
    <3> QED BY <2>2, <3>1, <3>2
  <2>7. ChunkInv'
    BY <2>1, <2>3, <2>4, <2>6, <1>5, <1>6 DEF ChunkInv, Off
  <2> QED BY <1>3, <1>14, <2>7 DEF TailInv
<1>15. pass.pc \in {"incremental", "backfill"}
  BY <1>1 DEF TypeInv, SessionTypeOK
<1>16. ASSUME pass.pc = "backfill", ~pass.whole PROVE TailInv' /\ ChunkInv'
  BY <1>3, <1>16 DEF TailInv, ChunkInv
<1> QED BY <1>11, <1>13, <1>14, <1>15, <1>16

\* Freezing makes frozen the rows that are due, and those of a pass that was not
\* whole are set aside.
LEMMA FreezesSeals ==
    ASSUME TypeInv, TypeInv', pass.now = instant, Freezes
    PROVE  /\ \A r \in SessionRows : /\ session'[r].start = session[r].start
                                     /\ session'[r].end = session[r].end
           /\ Live' = Live /\ Unfrozen' \subseteq Unfrozen
           /\ \A r \in Unfrozen : Due(r) => r \in FrozenRows'
           /\ \A r \in Unfrozen' : ~Due(r)
           /\ \A r \in FrozenRows' : r \in FrozenRows \/ (r \in Unfrozen /\ Due(r))
           /\ pass.whole => torn' = torn
           /\ ~pass.whole => Sealed' \subseteq Sealed
           /\ torn \subseteq torn'
<1>1. session' = Frozen(pass.now)
      /\ torn' = torn \cup {r \in SessionRows : session'[r].frozen /\ ~session[r].frozen /\ ~pass.whole}
  BY DEF Freezes
<1>2. \A r \in SessionRows :
                 /\ session'[r].live = session[r].live /\ session'[r].start = session[r].start
                 /\ session'[r].end = session[r].end
                 /\ session'[r].frozen = (session[r].frozen \/ (/\ session[r].live /\ session[r].end # 0
                                                              /\ session[r].end + Lookback < pass.now))
  BY <1>1, FrozenOK
<1>3. Live' = Live
  BY <1>2 DEF Live
<1>4. ASSUME NEW r \in Live
      PROVE  /\ session'[r].frozen <=> (session[r].frozen \/ Due(r))
             /\ r \in SessionRows
  <2>1. r \in SessionRows /\ session[r].live
    BY DEF Live
  <2>2. session[r].frozen \in BOOLEAN /\ session'[r].frozen \in BOOLEAN /\ session[r].live \in BOOLEAN
    BY <2>1 DEF TypeInv, SessionTypeOK, Rows
  <2> DEFINE b == session[r].end # 0 /\ session[r].end + Lookback < pass.now
  <2>3. session'[r].frozen = (session[r].frozen \/ (session[r].live /\ b))
    BY <1>2, <2>1
  <2>4. Due(r) <=> b
    BY DEF Due
  <2> HIDE DEF b
  <2> QED BY <2>1, <2>2, <2>3, <2>4
<1>5. \A r \in FrozenRows' : r \in FrozenRows \/ (r \in Unfrozen /\ Due(r))
  BY <1>3, <1>4 DEF FrozenRows, Unfrozen
<1>6. (\A r \in Unfrozen : Due(r) => r \in FrozenRows') /\ (\A r \in Unfrozen' : ~Due(r))
      /\ Unfrozen' \subseteq Unfrozen
  BY <1>3, <1>4 DEF FrozenRows, Unfrozen
<1>7. pass.whole => torn' = torn
  BY <1>1
<1>8. ~pass.whole => Sealed' \subseteq Sealed
  BY <1>1, <1>3, <1>4 DEF Sealed, FrozenRows
<1> QED BY <1>1, <1>2, <1>3, <1>5, <1>6, <1>7, <1>8

\* A row frozen by the freeze pass is apart from the others, and nothing goes on
\* with it.
LEMMA FreezeDisjoint ==
    ASSUME DisjointInv, NEW throttled \in BOOLEAN, Freeze(throttled)
    PROVE  SealedInv' /\ TailInv' /\ ChunkInv'
<1>1. TypeInv /\ SealedInv /\ TailInv /\ TypeInv' /\ Steady
  BY FreezeType DEF DisjointInv
<1>2. PICK ok \in BOOLEAN :
        /\ \/ ok /\ Freezes /\ UNCHANGED upsets
           \/ ~ok /\ Upset /\ UNCHANGED <<session, torn>>
        /\ pass' = IF throttled THEN NoPass
                   ELSE [pass EXCEPT !.pc = "open", !.whole = @ /\ ok]
  BY DEF Freeze
<1>3. /\ pass.pc = "freeze" /\ UNCHANGED <<instant, shot, owner, plan>>
  BY DEF Freeze
<1>4. plan = {} /\ plan' = {} /\ pass.now = instant /\ Shots' = Shots
  BY <1>1, <1>3 DEF TypeInv, SessionTypeOK, ClockInv, Shots
<1>5. pass'.pc \in {"asleep", "open"}
      /\ (pass'.pc = "open" /\ pass'.whole => ok /\ pass.whole /\ pass'.now = pass.now)
  <2>1. CASE throttled
    BY <1>2, <2>1, NoPassIs
  <2>2. CASE ~throttled
    <3> DEFINE w == pass.whole /\ ok
    <3>1. w \in BOOLEAN /\ pass \in Passes
      BY <1>1 DEF TypeInv, SessionTypeOK, Passes
    <3>2. pass' = [pass EXCEPT !.pc = "open", !.whole = w]
      BY <1>2, <2>2, <3>1 DEF Passes
    <3>3. w => pass.whole /\ ok
      OBVIOUS
    <3> HIDE DEF w
    <3>4. pass'.pc = "open" /\ pass'.whole = w /\ pass'.now = pass.now
      BY <3>1, <3>2 DEF Passes
    <3> QED BY <3>3, <3>4
  <2> QED BY <2>1, <2>2
<1>6. TailInv'
  BY <1>5 DEF TailInv
<1>7. CASE ~ok
  <2>1. Sealed' \subseteq Sealed
    BY <1>2, <1>7 DEF Sealed, FrozenRows, Live
  <2> QED BY <1>1, <1>5, <1>6, <1>7, <2>1, SealedStays DEF ChunkInv
<1>8. CASE ok /\ ~pass.whole
  <2>1. Sealed' \subseteq Sealed
    BY <1>1, <1>2, <1>4, <1>8, FreezesSeals
  <2> QED BY <1>1, <1>5, <1>6, <1>8, <2>1, SealedStays DEF ChunkInv
<1>9. CASE ok /\ pass.whole
  <2>1. /\ \A r \in SessionRows : /\ session'[r].start = session[r].start
                                  /\ session'[r].end = session[r].end
        /\ Live' = Live /\ Unfrozen' \subseteq Unfrozen
        /\ \A r \in Unfrozen' : ~Due(r)
        /\ \A r \in FrozenRows' : r \in FrozenRows \/ (r \in Unfrozen /\ Due(r))
        /\ torn' = torn
    BY <1>1, <1>2, <1>4, <1>9, FreezesSeals
  <2>2. /\ \A r \in Settled, s \in Settled \cup Sealed : r # s => Off(session[r], session[s])
        /\ \A r \in Settled : After(session[r].end) = {}
    BY <1>1, <1>3, <1>9 DEF TailInv
  <2>3. ASSUME NEW r \in Sealed'
        PROVE  r \in Settled \cup Sealed /\ session'[r].start = session[r].start
               /\ session'[r].end = session[r].end
    <3>1. r \in SessionRows /\ r \in FrozenRows' /\ r \notin torn
      BY <2>1 DEF Sealed, FrozenRows, Live
    <3>2. CASE r \in FrozenRows
      BY <2>1, <3>1, <3>2 DEF Sealed
    <3>3. CASE r \in Unfrozen /\ Due(r)
      BY <1>4, <2>1, <3>1, <3>3 DEF Settled, Pending, Due
    <3> QED BY <2>1, <3>1, <3>2, <3>3
  <2>4. \A r, s \in Settled \cup Sealed : r # s => Off(session[r], session[s])
    BY <1>1, <2>2 DEF SealedInv, Off
  <2>5. \A r, s \in Sealed' : r # s => Off(session'[r], session'[s])
    BY <2>3, <2>4 DEF Off
  <2>6. ASSUME NEW r \in Settled \cup Sealed
        PROVE  /\ Covered(session[r].end)
               /\ After(session[r].end) # {} => KeptOrGone(session[r].end)
    BY <1>1, <2>2 DEF SealedInv, Covered
  <2>7. ASSUME NEW r \in Sealed'
        PROVE  /\ Covered(session[r].end)'
               /\ After(session[r].end)' # {} => KeptOrGone(session[r].end)'
    <3>1. r \in Settled \cup Sealed /\ session'[r].end = session[r].end
      BY <2>3
    <3>2. After(session[r].end)' = After(session[r].end)
      BY <3>1, <1>4 DEF After
    <3>3. \A g \in FrozenRows : g \in FrozenRows' /\ session'[g] = session[g]
      BY <1>1, StaysOK DEF Steady
    <3>4. Covered(session[r].end)'
      BY <2>6, <3>1, <3>2, <3>3 DEF Covered
    <3>5. KeptOrGone(session[r].end) => KeptOrGone(session[r].end)'
      <4>1. ASSUME NEW t \in Shots, owner[t] # 0, session[owner[t]].frozen
            PROVE  session'[owner[t]].frozen
        <5>1. owner[t] \in FrozenRows
          BY <1>1, <4>1 DEF TypeInv, SessionTypeOK, FrozenRows, Shots
        <5> QED BY <3>3, <4>1, <5>1
      <4> QED BY <1>3, <1>4, <3>1, <4>1 DEF KeptOrGone
    <3> QED BY <2>6, <3>1, <3>2, <3>4, <3>5
  <2>8. SealedInv'
    BY <2>5, <2>7 DEF SealedInv, Off
  <2>9. ASSUME pass'.pc = "open" /\ pass'.whole PROVE \A r \in Unfrozen' : ~Due(r)'
    <3>1. \A r \in Unfrozen' : session'[r].end = session[r].end
      BY <2>1 DEF Unfrozen, Live
    <3> QED BY <1>5, <2>1, <2>9, <3>1 DEF Due
  <2>10. ChunkInv'
    BY <1>4, <1>5, <2>9 DEF ChunkInv, Coming
  <2> QED BY <1>6, <2>8, <2>10
<1> QED BY <1>7, <1>8, <1>9

-----------------------------------------------------------------------------
(* The calls of a chunk. *)

\* A draft that is put, the segment it is of, and the rows it met.
HeadParts(e, d, F, E, cut) ==
    /\ e = Narrowed(d, HeadOf(d, E))
    /\ e.ids \in SUBSET d.ids /\ d.ids \in SUBSET F
    /\ Spans(e) /\ DraftOK(F, d)
    /\ \A r \in E, t \in e.ids : session[r].frozen /\ Overlaps(d, r) => t < session[r].start
    /\ \A t \in d.ids : t \in e.ids
          \/ \E r \in E : session[r].frozen /\ Overlaps(d, r) /\ ~(t < session[r].start)
    /\ e.open = (d.end = Max(F) /\ cut + MergeGap < d.end + MergeGap)
    /\ d.ids \subseteq Nat /\ {e.start, e.end, d.start, d.end} \subseteq Nat

\* What the backfill leaves of a draft lies off the rows of its chunk.
LEMMA HeadDraftParts ==
    ASSUME TypeInv, NEW F \in SUBSET Shots, NEW cursor, NEW cut, NEW now,
           NEW d \in Segment(F, cut + MergeGap), NEW E, E = Existing(cursor, cut, now),
           HeadOf(d, E) # {}
    PROVE  HeadParts(Narrowed(d, HeadOf(d, E)), d, F, E, cut)
<1> DEFINE e == Narrowed(d, HeadOf(d, E))
<1>1. F \in SUBSET Instants
  BY DEF Shots
<1>2. DraftOK(F, d) /\ d.open = (d.end = Max(F) /\ cut + MergeGap < d.end + MergeGap)
  BY <1>1, SegmentOK
<1>3. d \in Drafts
  BY SegmentTyped DEF TypeInv, SessionTypeOK
<1>4. HeadOf(d, E) \in SUBSET d.ids
  BY DEF HeadOf
<1>5. Spans(e) /\ e.ids = HeadOf(d, E) /\ e.open = d.open
  BY <1>3, <1>4, NarrowedOK
<1> HIDE DEF e
<1>6. e.ids \in SUBSET d.ids /\ d.ids \in SUBSET F
  BY <1>2, <1>4, <1>5 DEF DraftOK
<1>7. d.ids \subseteq Nat /\ {e.start, e.end, d.start, d.end} \subseteq Nat
  BY <1>1, <1>2, <1>5, <1>6, InstantsNat DEF Spans, DraftOK
<1>8. /\ \A r \in E, t \in e.ids : session[r].frozen /\ Overlaps(d, r) => t < session[r].start
      /\ \A t \in d.ids : t \in e.ids
            \/ \E r \in E : session[r].frozen /\ Overlaps(d, r) /\ ~(t < session[r].start)
  BY <1>5 DEF HeadOf
<1> QED BY <1>2, <1>5, <1>6, <1>7, <1>8 DEF HeadParts, e

\* What is left of a draft is clear of the frozen rows, but for one that ends where
\* the chunk begins and kept the frame the draft begins with.
LEMMA HeadDraftClear ==
    ASSUME TypeInv, SealedInv, NEW cursor \in Nat, NEW cut \in Nat, NEW now, now = pass.now,
           NEW F, F = Between(cursor, cut), NEW d, NEW e,
           HeadParts(e, d, F, Existing(cursor, cut, now), cut)
    PROVE  KeptOrGone(e.start) \/ \A r \in Sealed : Off(e, session[r])
<1> SUFFICES ASSUME NEW r \in Sealed, ~Off(e, session[r]) PROVE KeptOrGone(e.start)
  OBVIOUS
<1> DEFINE E == Existing(cursor, cut, now)
<1>1. /\ e.ids \in SUBSET d.ids /\ d.ids \in SUBSET F
      /\ Spans(e) /\ DraftOK(F, d)
      /\ \A q \in E, t \in e.ids : session[q].frozen /\ Overlaps(d, q) => t < session[q].start
      /\ d.ids \subseteq Nat /\ {e.start, e.end, d.start, d.end} \subseteq Nat
  BY DEF HeadParts
<1>2. r \in FrozenRows /\ r \in Live /\ session[r].frozen
  BY DEF Sealed, FrozenRows
<1>3. /\ session[r].start \in Nat /\ session[r].end \in Nat /\ session[r].start <= session[r].end
      /\ 1 <= session[r].start
  BY <1>2, SealedRow
<1>4. e.start \in d.ids /\ e.end \in d.ids /\ e.end \in e.ids /\ d.start \in d.ids
      /\ \A t \in d.ids : d.start <= t /\ t <= d.end /\ cursor <= t /\ t < cut /\ t \in Shots
  BY <1>1 DEF Spans, DraftOK, Between
<1>5. session[r].start <= e.end /\ e.start <= session[r].end
  BY <1>1, <1>3 DEF Off
<1>6. Overlaps(d, r)
  BY <1>1, <1>3, <1>4, <1>5 DEF Overlaps
<1>7. r \notin E
  <2>1. r \in E => e.end < session[r].start
    BY <1>1, <1>2, <1>4, <1>6
  <2> QED BY <2>1, <1>1, <1>3, <1>5
<1>8. session[r].end <= cursor
  <2>1. session[r].start < cut
    BY <1>1, <1>3, <1>4, <1>5
  <2> QED BY <1>2, <1>3, <1>7, <2>1 DEF Existing
<1>9. e.start = session[r].end /\ d.start = e.start
  <2>1. cursor <= e.start /\ cursor <= d.start /\ d.start <= e.start
    BY <1>4
  <2> QED BY <2>1, <1>1, <1>3, <1>5, <1>8
<1>10. PICK n \in d.ids : d.start < n /\ n < d.start + MergeGap
  BY <1>1 DEF DraftOK
<1>11. n \in After(session[r].end)
  BY <1>4, <1>9, <1>10 DEF After
<1>12. KeptOrGone(session[r].end)
  BY <1>11 DEF SealedInv
<1> QED BY <1>9, <1>12

\* A frame that goes on with what is left of a draft is a frozen row's.
LEMMA HeadDraftCovered ==
    ASSUME TypeInv, NEW cursor \in Nat, NEW cut \in Nat, NEW now,
           CutIsSafe(cursor, cut),
           NEW F, F = Between(cursor, cut), NEW d, NEW e,
           HeadParts(e, d, F, Existing(cursor, cut, now), cut)
    PROVE  Covered(e.end) /\ e.end < cut /\ ~e.open
<1> DEFINE E == Existing(cursor, cut, now)
<1>1. /\ e.ids \in SUBSET d.ids /\ d.ids \in SUBSET F
      /\ Spans(e) /\ DraftOK(F, d)
      /\ \A q \in E, t \in e.ids : session[q].frozen /\ Overlaps(d, q) => t < session[q].start
      /\ \A t \in d.ids : t \in e.ids
            \/ \E r \in E : session[r].frozen /\ Overlaps(d, r) /\ ~(t < session[r].start)
      /\ e.open = (d.end = Max(F) /\ cut + MergeGap < d.end + MergeGap)
      /\ d.ids \subseteq Nat /\ {e.start, e.end, d.start, d.end} \subseteq Nat
  BY DEF HeadParts
<1>2. e.end \in d.ids /\ e.end \in e.ids /\ d.end \in d.ids /\ (\A t \in e.ids : t <= e.end)
      /\ \A t \in d.ids : cursor <= t /\ t < cut /\ t \in Shots
  BY <1>1 DEF Spans, DraftOK, Between
<1>3. e.end < cut /\ d.end < cut
  BY <1>2
<1>4. ~e.open
  <2>1. d.end \in Nat
    BY <1>1
  <2>2. ~(cut + MergeGap < d.end + MergeGap)
    BY <1>3, <2>1, SessionFacts
  <2> QED BY <1>1, <2>2
<1>5. ASSUME NEW t \in Shots, e.end < t, t < e.end + MergeGap
      PROVE  \E r \in FrozenRows : e.end < session[r].start /\ session[r].start <= t
  <2>1. t \in Nat /\ e.end \in Nat
    BY <1>1, InstantsNat DEF Shots
  <2>2. t < cut
    <3>1. cut <= t => e.end + MergeGap <= t
      BY <1>2, <1>3 DEF CutIsSafe
    <3> QED BY <3>1, <2>1, <1>5, SessionFacts
  <2>3. t \in F
    BY <1>2, <1>5, <2>1, <2>2 DEF Between
  <2>4. t \in d.ids
    BY <1>1, <1>2, <1>5, <2>3 DEF DraftOK
  <2>5. t \notin e.ids
    BY <1>2, <1>5, <2>1
  <2>6. PICK r \in E : session[r].frozen /\ Overlaps(d, r) /\ ~(t < session[r].start)
    BY <1>1, <2>4, <2>5
  <2>7. e.end < session[r].start /\ r \in FrozenRows
    BY <1>1, <1>2, <2>6 DEF Existing, FrozenRows
  <2>8. session[r].start <= t
    BY <2>1, <2>6, <2>7, SealedRow
  <2> QED BY <2>7, <2>8
<1> QED BY <1>3, <1>4, <1>5 DEF Covered, After

\* Opening a chunk: trimming against the rows there, or own_or_bail later.
LEMMA BackfillOpensDisjoint ==
    ASSUME DisjointInv, BackfillOpens
    PROVE  SealedInv' /\ TailInv' /\ ChunkInv'
<1>1. TypeInv /\ SealedInv /\ ChunkInv /\ TypeInv' /\ Steady
  BY BackfillOpensType DEF DisjointInv
<1>2. /\ pass.pc = "open" /\ plan = {}
      /\ UNCHANGED <<instant, shot, owner, session, neglected, torn, upsets>>
      /\ \/ pass' = NoPass /\ plan' = {}
         \/ \E cursor \in Nat, cut \in Nat :
               /\ pass' = [pass EXCEPT !.pc = "backfill", !.cut = cut]
               /\ plan' = BackfillCalls(Between(cursor, cut), cursor, cut, pass.now)
               /\ cut + Lookback <= pass.now /\ CutIsSafe(cursor, cut)
  BY <1>1, OpensIs
<1>3. /\ Sealed' = Sealed /\ Unfrozen' = Unfrozen /\ FrozenRows' = FrozenRows
      /\ Shots' = Shots /\ Live' = Live
  BY <1>2 DEF Sealed, FrozenRows, Unfrozen, Live, Shots
<1>4. SealedInv'
  BY <1>1, <1>3, SealedStays
<1>5. CASE pass' = NoPass
  BY <1>4, <1>5, NoPassIs DEF TailInv, ChunkInv
<1>6. ASSUME NEW cursor \in Nat, NEW cut \in Nat,
             pass' = [pass EXCEPT !.pc = "backfill", !.cut = cut],
             plan' = BackfillCalls(Between(cursor, cut), cursor, cut, pass.now),
             cut + Lookback <= pass.now, CutIsSafe(cursor, cut), pass.whole
      PROVE  ChunkInv'
  <2> DEFINE F == Between(cursor, cut)
             E == Existing(cursor, cut, pass.now)
             e(d) == Narrowed(d, HeadOf(d, E))
             put(d) == Call("put", 0, e(d))
             S == Segment(F, cut + MergeGap)
  <2>1. pass'.now = pass.now /\ pass.now = instant /\ instant \in Nat
    BY <1>1, <1>2, <1>6, InstantsNat DEF TypeInv, SessionTypeOK, ClockInv, Passes
  <2>2. F \in SUBSET Shots /\ F \in SUBSET Instants
    BY BetweenOK
  <2>3. \A r \in Unfrozen : ~Due(r)
    BY <1>1, <1>2, <1>6 DEF ChunkInv, DueCalls
  <2>4. ASSUME NEW c \in plan'
        PROVE  \E d \in S :
                 \/ \E r \in E :
                       /\ session[r].end = d.end
                       /\ c = Call(IF session[r].frozen THEN "extend" ELSE "own", r, d)
                 \/ HeadOf(d, E) # {} /\ c = put(d)
    <3>1. c \in BackfillCalls(F, cursor, cut, pass.now)
      BY <1>6
    <3> HIDE DEF F
    <3> QED BY <3>1, BackfillCallIs
  <2>5. ASSUME NEW r \in E, NEW d \in S, session[r].end = d.end
        PROVE  session[r].frozen
    <3>1. DraftOK(F, d)
      BY <2>2, <2>5, SegmentOK
    <3>2. d.end \in F
      BY <3>1 DEF DraftOK
    <3>3. d.end \in Nat /\ 1 <= d.end /\ d.end < cut
      BY <2>2, <3>2 DEF Between, Instants
    <3>4. session[r].end # 0 /\ session[r].end + Lookback < pass.now
      BY <1>6, <2>1, <2>5, <3>3, SessionFacts
    <3> QED BY <2>3, <3>4 DEF Existing, Unfrozen, Due
  <2>6. ASSUME NEW c \in plan', c.op # "extend"
        PROVE  c.op = "put" /\ \E d \in S : HeadOf(d, E) # {} /\ c = put(d)
    <3>1. PICK d \in S :
                 \/ \E r \in E :
                       /\ session[r].end = d.end
                       /\ c = Call(IF session[r].frozen THEN "extend" ELSE "own", r, d)
                 \/ HeadOf(d, E) # {} /\ c = put(d)
      BY <2>4
    <3> HIDE DEF E, S
    <3>2. CASE \E r \in E : /\ session[r].end = d.end
                            /\ c = Call(IF session[r].frozen THEN "extend" ELSE "own", r, d)
      <4>1. PICK r \in E : /\ session[r].end = d.end
                           /\ c = Call(IF session[r].frozen THEN "extend" ELSE "own", r, d)
        BY <3>2
      <4>2. c = Call("extend", r, d)
        BY <2>5, <4>1
      <4> QED BY <2>6, <4>2 DEF Call
    <3>3. CASE HeadOf(d, E) # {} /\ c = put(d)
      BY <3>3 DEF Call
    <3> QED BY <3>1, <3>2, <3>3
  <2>7. ASSUME NEW d \in S, HeadOf(d, E) # {}
        PROVE  /\ HeadParts(e(d), d, F, E, cut)
               /\ put(d).draft = e(d) /\ put(d).op = "put"
    <3>1. HeadParts(e(d), d, F, E, cut)
      <4> HIDE DEF F
      <4> QED BY <1>1, <2>2, <2>7, HeadDraftParts
    <3>2. put(d).draft = e(d) /\ put(d).op = "put"
      BY DEF Call
    <3> QED BY <3>1, <3>2
  <2>8. ASSUME NEW c \in Coming'
        PROVE  c \in plan' /\ c.op = "put" /\ \E d \in S : HeadOf(d, E) # {} /\ c = put(d)
    <3>1. c \in plan' /\ c.op # "extend"
      BY DEF Coming
    <3> QED BY <3>1, <2>6
  <2>9. ASSUME NEW c \in Coming', NEW o \in Coming', c # o
        PROVE  Off(c.draft, o.draft)
    <3>1. PICK d \in S : HeadOf(d, E) # {} /\ c = put(d)
      BY <2>8
    <3>2. PICK g \in S : HeadOf(g, E) # {} /\ o = put(g)
      BY <2>8
    <3>3. d # g
      BY <2>9, <3>1, <3>2
    <3> DEFINE x == e(d)  y == e(g)
    <3>4. HeadParts(x, d, F, E, cut) /\ HeadParts(y, g, F, E, cut) /\ c.draft = x /\ o.draft = y
      BY <2>7, <3>1, <3>2
    <3>5. \A u \in d.ids, v \in g.ids : (d.start < g.start /\ u < v) \/ (g.start < d.start /\ v < u)
      <4> HIDE DEF F
      <4> QED BY <2>2, <3>3, SegmentApart
    <3> HIDE DEF F, E, x, y
    <3>6. /\ x.end \in d.ids /\ x.start \in d.ids /\ y.start \in g.ids /\ y.end \in g.ids
          /\ {x.start, x.end, d.start, d.end} \subseteq Nat
          /\ {y.start, y.end, g.start, g.end} \subseteq Nat
      BY <3>4 DEF HeadParts, Spans
    <3>7. (d.start < g.start /\ x.end < y.start) \/ (g.start < d.start /\ y.start < x.end)
      BY <3>5, <3>6
    <3>8. (d.start < g.start /\ x.start < y.end) \/ (g.start < d.start /\ y.end < x.start)
      BY <3>5, <3>6
    <3> QED BY <3>4, <3>6, <3>7, <3>8 DEF Off
  <2>10. ASSUME NEW c \in Coming' PROVE ComingOK(c)'
    <3>1. PICK d \in S : HeadOf(d, E) # {} /\ c = put(d)
      BY <2>8
    <3> DEFINE x == e(d)
    <3>2. HeadParts(x, d, F, E, cut) /\ c.draft = x /\ c.op = "put"
      BY <2>7, <3>1
    <3> HIDE DEF x, put
    <3>3. KeptOrGone(x.start) \/ \A r \in Sealed : Off(x, session[r])
      <4> HIDE DEF F
      <4>1. F = Between(cursor, cut)
        BY DEF F
      <4> QED BY <1>1, <3>2, <4>1, HeadDraftClear
    <3>4. Covered(x.end) /\ x.end < cut /\ ~x.open
      <4> HIDE DEF F
      <4>1. F = Between(cursor, cut)
        BY DEF F
      <4> QED BY <1>1, <1>6, <3>2, <4>1, HeadDraftCovered
    <3>5. x.end + Lookback < pass.now
      <4>1. x.end \in Nat
        BY <3>2 DEF HeadParts
      <4> QED BY <4>1, <3>4, <1>6, <2>1, SessionFacts
    <3> HIDE DEF F, E, S
    <3>6. KeptOrGone(c.draft.start)' \/ \A r \in Sealed' : Off(c.draft, session'[r])
      BY <1>2, <1>3, <3>2, <3>3 DEF KeptOrGone
    <3>7. Covered(c.draft.end)'
      BY <1>2, <1>3, <3>2, <3>4 DEF Covered, After
    <3> QED BY <2>1, <3>2, <3>4, <3>5, <3>6, <3>7 DEF ComingOK, ClearOK, StageOK, Off
  <2>11. \A c \in plan' : c.op # "own"
    BY <2>6
  <2>12. \A r \in Unfrozen' : ~Due(r)'
    BY <1>2, <1>3, <2>1, <2>3 DEF Due
  <2> HIDE DEF F, E, S
  <2> QED BY <2>9, <2>10, <2>11, <2>12 DEF ChunkInv, Off
<1>7. ASSUME NEW cursor \in Nat, NEW cut \in Nat,
             pass' = [pass EXCEPT !.pc = "backfill", !.cut = cut]
      PROVE  TailInv' /\ (~pass.whole => ChunkInv')
  <2>1. pass'.pc = "backfill" /\ pass'.whole = pass.whole
    BY <1>1, <1>7 DEF TypeInv, SessionTypeOK, Passes
  <2> QED BY <2>1 DEF TailInv, ChunkInv
<1> QED BY <1>2, <1>4, <1>5, <1>6, <1>7

\* A row that gets all its frames gets its first, so that no frozen row kept it:
\* the row is clear of them, and its last frame is its own from then on.
LEMMA OwnAllOK ==
    ASSUME TypeInv, NEW c \in plan, c.op = "assign", pass.pc = "backfill",
           NEW want, want = c.draft.ids,
           want \subseteq Assignable(want), owner' = Assigned(want, c.row)
    PROVE  ~KeptOrGone(c.draft.start) /\ owner'[c.draft.end] = c.row
<1>1. c.row \in Live /\ Spans(c.draft)
  BY DEF TypeInv, SessionTypeOK, CallsInv, CallOK
<1>2. {c.draft.start, c.draft.end} \subseteq want
  BY <1>1 DEF Spans
<1>3. \A t \in want : t \in Shots /\ (owner[t] = 0 \/ ~session[owner[t]].frozen)
  BY DEF Assignable
<1>4. ~KeptOrGone(c.draft.start)
  BY <1>2, <1>3 DEF KeptOrGone
<1>5. \A t \in Assignable(want) : Assigned(want, c.row)[t] = c.row
  <2>1. PICK r \in {0} \cup Live : r = c.row
    BY <1>1
  <2>2. \A t \in Assignable(want) : Assigned(want, r)[t] = r
    BY AssignedOK
  <2> QED BY <2>1, <2>2
<1> QED BY <1>2, <1>4, <1>5

\* Looking up the frames of a row that was put finds none,
LEMMA MetaDisjoint ==
    ASSUME DisjointInv, NEW c \in plan, Meta(c)
    PROVE  SealedInv' /\ TailInv' /\ ChunkInv'
<1> DEFINE op == IF c.op = "extend" THEN "add" ELSE "assign"
           a == Call(op, c.row, c.draft)
<1>1. TypeInv /\ SealedInv /\ ChunkInv /\ TypeInv' /\ Steady
  BY MetaType DEF DisjointInv
<1>2. /\ c.op \in {"own", "extend", "new"} /\ NextCall(c.op, c)
      /\ pass' = [pass EXCEPT !.owned[c.row] = OwnedBy(c.row)]
      /\ plan' = (plan \ {c}) \cup {a}
      /\ UNCHANGED <<instant, shot, owner, session, torn>>
  BY DEF Meta, NextCall
<1>3. pass.pc = "backfill" /\ pass \in Passes /\ c.row \in SessionRows
  BY <1>1, <1>2 DEF TypeInv, SessionTypeOK, CallsInv, CallOK, Live
<1>4. /\ pass'.pc = pass.pc /\ pass'.now = pass.now /\ pass'.whole = pass.whole
      /\ pass'.owned[c.row] = OwnedBy(c.row)
  BY <1>2, <1>3 DEF Passes
<1>5. a.op = op /\ a.row = c.row /\ a.draft = c.draft
  BY DEF Call
<1> HIDE DEF a
<1>6. Sealed' \subseteq Sealed
  BY <1>2 DEF Sealed, FrozenRows, Live
<1>7. SealedInv' /\ TailInv'
  BY <1>1, <1>3, <1>4, <1>6, SealedStays DEF TailInv
<1>8. CASE pass.whole /\ c.op = "new"
  <2>1. OwnedBy(c.row) = {}
    <3>1. c \in Coming
      BY <1>8 DEF Coming
    <3> QED BY <1>1, <1>3, <1>8, <3>1 DEF ChunkInv, ComingOK, StageOK
  <2>2. a.op = "assign" /\ pass'.owned[a.row] = {}
    BY <1>4, <1>5, <1>8, <2>1
  <2>3. StageOK(a)'
    BY <2>2 DEF StageOK
  <2> QED BY <1>1, <1>2, <1>3, <1>4, <1>5, <1>7, <1>8, <2>2, <2>3, ChunkMoves
<1>9. CASE pass.whole /\ c.op # "new"
  <2>1. c.op = "extend"
    BY <1>1, <1>2, <1>3, <1>9 DEF ChunkInv
  <2>2. a.op = "add"
    BY <1>5, <2>1
  <2>3. \A o \in plan : o.op \notin First
    BY <1>2, <2>1, AssignFirst
  <2>4. Coming' \subseteq Coming /\ \A o \in plan' : o.op # "own"
    BY <1>1, <1>2, <1>3, <1>9, <2>2 DEF Coming, ChunkInv
  <2>5. DueCalls = {}
    BY <2>3 DEF DueCalls, First
  <2>6. \A o \in Coming' : StageOK(o)'
    BY <2>3, <2>4 DEF Coming, StageOK, First
  <2> QED BY <1>1, <1>2, <1>3, <1>4, <1>7, <1>9, <2>4, <2>5, <2>6, ChunkStays
<1>10. CASE ~pass.whole
  BY <1>4, <1>7, <1>10 DEF ChunkInv
<1> QED BY <1>8, <1>9, <1>10

\* assigning them gives a row all of its draft's, or its chunk is given up,
LEMMA OwnDisjoint ==
    ASSUME DisjointInv, NEW c \in plan, Own(c)
    PROVE  SealedInv' /\ TailInv' /\ ChunkInv'
<1> DEFINE want == c.draft.ids \ pass.owned[c.row]
           a == Call("freeze", c.row, c.draft)
           u == Call("undo", c.row, c.draft)
<1>1. TypeInv /\ SealedInv /\ ChunkInv /\ TypeInv' /\ Steady
  BY OwnType DEF DisjointInv
<1>2. /\ pass.pc = "backfill" /\ c.op \in {"assign", "add"} /\ owner' = Assigned(want, c.row)
      /\ c \in Calls /\ c.row \in Live /\ c.row \in SessionRows
      /\ \A o \in plan : o.op \in First => o = c
      /\ UNCHANGED <<instant, shot, session, checkpoint, neglected, torn, upsets>>
      /\ \/ want \subseteq Assignable(want) /\ c.op = "add" /\ plan' = plan \ {c} /\ pass' = pass
         \/ /\ want \subseteq Assignable(want) /\ c.op = "assign" /\ pass' = pass
            /\ plan' = (plan \ {c}) \cup {a}
         \/ c.op = "add" /\ plan' = {} /\ pass' = NoPass
         \/ c.op = "assign" /\ plan' = {u} /\ pass' = pass
  BY <1>1, OwnIs
<1> HIDE DEF want
<1>3. /\ a.op = "freeze" /\ a.row = c.row /\ a.draft = c.draft
      /\ u.op = "undo" /\ u.row = c.row
  BY DEF Call
<1> HIDE DEF a, u
<1>4. Sealed' \subseteq Sealed /\ Sealed' = Sealed /\ Shots' = Shots
  BY <1>2 DEF Sealed, FrozenRows, Live, Shots
<1>5. SealedInv'
  BY <1>1, <1>4, SealedStays
<1>6. CASE pass' = NoPass
  BY <1>5, <1>6, NoPassIs DEF TailInv, ChunkInv
<1>7. CASE pass' = pass
  <2>1. TailInv'
    BY <1>2, <1>7 DEF TailInv
  <2>2. CASE ~pass.whole
    BY <1>5, <1>7, <2>1, <2>2 DEF ChunkInv
  <2>3. CASE pass.whole /\ c.op = "add" /\ plan' = plan \ {c}
    <3>1. Coming' \subseteq Coming /\ (\A o \in plan' : o.op # "own")
      BY <1>1, <1>2, <2>3 DEF Coming, ChunkInv
    <3>2. DueCalls = {}
      BY <1>2, <2>3 DEF DueCalls, First
    <3>3. \A o \in Coming' : StageOK(o)'
      BY <1>2, <2>3, <3>1 DEF Coming, StageOK, First
    <3>4. ChunkInv'
      BY <1>1, <1>2, <1>7, <2>3, <3>1, <3>2, <3>3, ChunkStays
    <3> QED BY <1>5, <2>1, <3>4
  <2>4. CASE pass.whole /\ c.op = "assign" /\ want \subseteq Assignable(want)
             /\ plan' = (plan \ {c}) \cup {a}
    <3>1. c \in Coming
      BY <2>4 DEF Coming
    <3>2. ComingOK(c)
      BY <1>1, <1>2, <2>4, <3>1 DEF ChunkInv
    <3>3. want = c.draft.ids
      BY <2>4, <3>2 DEF want, ComingOK, StageOK
    <3>4. ~KeptOrGone(c.draft.start) /\ owner'[c.draft.end] = c.row
      BY <1>1, <1>2, <2>4, <3>3, OwnAllOK
    <3>5. \A r \in Sealed : Off(c.draft, session[r])
      BY <3>2, <3>4 DEF ComingOK, ClearOK
    <3>6. StageOK(a)'
      BY <1>2, <1>3, <1>4, <3>4, <3>5 DEF StageOK, Off
    <3>7. ChunkInv'
      BY <1>1, <1>2, <1>3, <1>7, <2>4, <3>6, ChunkMoves
    <3> QED BY <1>5, <2>1, <3>7
  <2>5. CASE pass.whole /\ plan' = {u}
    <3>1. Coming' \subseteq Coming /\ (\A o \in plan' : o.op # "own") /\ Coming' = {}
      BY <1>3, <2>5 DEF Coming
    <3>2. \A o \in DueCalls : o = c
      BY <1>2 DEF DueCalls, First
    <3>3. u \in DueCalls'
      BY <1>3, <2>5 DEF DueCalls
    <3>4. ChunkInv'
      BY <1>1, <1>2, <1>3, <1>7, <2>5, <3>1, <3>2, <3>3, ChunkStays
    <3> QED BY <1>5, <2>1, <3>4
  <2> QED BY <1>2, <1>6, <1>7, <2>2, <2>3, <2>4, <2>5
<1> QED BY <1>2, <1>6, <1>7

\* and freezing it seals a row that is off the others.
LEMMA SealDisjoint ==
    ASSUME DisjointInv, NEW c \in plan, Seal(c)
    PROVE  SealedInv' /\ TailInv' /\ ChunkInv'
<1> DEFINE a == Call("confirm", c.row, c.draft)
<1>1. TypeInv /\ SealedInv /\ ChunkInv /\ TypeInv' /\ Steady
  BY SealType DEF DisjointInv
<1>2. /\ c.op = "freeze" /\ Freezes /\ plan' = (plan \ {c}) \cup {a}
      /\ UNCHANGED <<instant, shot, owner, pass>>
  BY DEF Seal, NextCall
<1>3. pass.pc = "backfill" /\ pass.now = instant /\ Shots' = Shots /\ c \in Calls
  BY <1>1, <1>2 DEF TypeInv, SessionTypeOK, ClockInv, CallsInv, CallOK, Shots
<1>4. a.op = "confirm" /\ a.row = c.row /\ a.draft = c.draft
  BY DEF Call
<1> HIDE DEF a
<1>5. TailInv'
  BY <1>2, <1>3 DEF TailInv
<1>6. CASE ~pass.whole
  <2>1. Sealed' \subseteq Sealed
    BY <1>1, <1>2, <1>3, <1>6, FreezesSeals
  <2> QED BY <1>1, <1>2, <1>5, <1>6, <2>1, SealedStays DEF ChunkInv
<1>7. CASE pass.whole
  <2>1. /\ \A o \in plan : o.op # "own"
        /\ \A r \in Unfrozen : Due(r) => \E o \in DueCalls : o.row = r
        /\ \A o, d \in Coming : o # d => Off(o.draft, d.draft)
        /\ \A o \in Coming : ComingOK(o)
    BY <1>1, <1>3, <1>7 DEF ChunkInv
  <2>2. c \in Coming /\ ClearOK(c) /\ StageOK(c)
    BY <1>2, <2>1 DEF Coming, ComingOK
  <2>3. \A o \in plan : o.op \in First => o = c
    BY <1>1, <1>2 DEF TypeInv, CallsInv, First
  <2>4. /\ \A r \in SessionRows : /\ session'[r].start = session[r].start
                                  /\ session'[r].end = session[r].end
        /\ Live' = Live /\ Unfrozen' \subseteq Unfrozen
        /\ \A r \in Unfrozen : Due(r) => r \in FrozenRows'
        /\ \A r \in Unfrozen' : ~Due(r)
        /\ \A r \in FrozenRows' : r \in FrozenRows \/ (r \in Unfrozen /\ Due(r))
        /\ torn' = torn
    BY <1>1, <1>2, <1>3, <1>7, FreezesSeals
  <2>5. c.draft \in Drafts /\ Spans(c.draft) /\ c.row \in Live /\ c.row \in SessionRows
        /\ session[c.row] = RowOf(c.draft) /\ c.row \in Unfrozen
    <3>1. c.draft \in Drafts /\ Spans(c.draft) /\ c.row \in Live /\ c.row \in SessionRows
      BY <1>1, <1>2, <1>3, CallFields DEF TypeInv, CallsInv, CallOK, Live
    <3>2. session[c.row] = RowOf(c.draft) /\ ~RowOf(c.draft).frozen
      BY <1>2, <2>2, <3>1, RowOfOK DEF ClearOK
    <3> QED BY <3>1, <3>2 DEF Unfrozen
  <2>6. session[c.row].start = c.draft.start /\ session[c.row].end = c.draft.end
    BY <2>2, <2>5, RowOfOK DEF ClearOK
  <2>7. c.row \in FrozenRows'
    <3>1. c.draft.end \in Instants
      BY <2>5 DEF Spans, Drafts
    <3>2. c.draft.end # 0
      BY <3>1 DEF Instants
    <3> QED BY <2>2, <2>4, <2>5, <2>6, <3>2 DEF ClearOK, Due
  <2>8. /\ \A r \in Sealed : Off(c.draft, session[r])
        /\ c.draft.end \in Shots => owner[c.draft.end] = c.row
    BY <1>2, <2>2 DEF StageOK
  <2>9. ASSUME NEW r \in Sealed' PROVE r \in Sealed \/ r = c.row
    <3>1. r \in FrozenRows' /\ r \notin torn
      BY <2>4 DEF Sealed
    <3>2. CASE r \in Unfrozen /\ Due(r)
      BY <2>1, <2>3, <3>2 DEF DueCalls, First
    <3> QED BY <2>4, <3>1, <3>2 DEF Sealed
  <2>10. \A r \in Sealed : session'[r] = session[r]
    BY <1>1 DEF Steady, Sealed
  <2>11. session'[c.row].start = c.draft.start /\ session'[c.row].end = c.draft.end
    BY <2>4, <2>5, <2>6
  <2>12. \A r, s \in Sealed' : r # s => Off(session'[r], session'[s])
    <3>1. ASSUME NEW r \in Sealed', NEW s \in Sealed', r # s, r # c.row, s # c.row
          PROVE  Off(session'[r], session'[s])
      BY <1>1, <2>9, <2>10, <3>1 DEF SealedInv
    <3>2. ASSUME NEW s \in Sealed', s # c.row
          PROVE  Off(session'[c.row], session'[s]) /\ Off(session'[s], session'[c.row])
      BY <2>8, <2>9, <2>10, <2>11, <3>2 DEF Off
    <3> QED BY <3>1, <3>2
  <2>13. Covered(c.draft.end)'
    BY <1>1, <1>2, <1>3, <2>2, ComingStays DEF ClearOK
  <2>14. ASSUME NEW r \in Sealed'
         PROVE  /\ Covered(session[r].end)'
                /\ After(session[r].end)' # {} => KeptOrGone(session[r].end)'
    <3>1. CASE r = c.row
      <4>1. Covered(session[r].end)'
        BY <2>11, <2>13, <3>1 DEF Covered, After
      <4>2. KeptOrGone(session[r].end)'
        BY <1>2, <1>3, <2>5, <2>7, <2>8, <2>11, <3>1, SessionFacts
           DEF KeptOrGone, FrozenRows, SessionRows
      <4> QED BY <4>1, <4>2
    <3>2. CASE r \in Sealed
      <4>1. Covered(session[r].end) /\ (After(session[r].end) # {} => KeptOrGone(session[r].end))
        BY <1>1, <3>2 DEF SealedInv
      <4>2. session'[r].end = session[r].end
        BY <2>10, <3>2
      <4>3. \A g \in FrozenRows : g \in FrozenRows' /\ session'[g] = session[g]
        BY <1>1, StaysOK DEF Steady
      <4>4. Covered(session[r].end)'
        BY <1>3, <4>1, <4>2, <4>3 DEF Covered, After
      <4>5. session[r].end \in 0..LastInstant /\ session[r].end <= instant
        <5>1. r \in FrozenRows
          BY <3>2 DEF Sealed
        <5>2. session[r].end \in 0..LastInstant /\ session[r].end \in Nat
              /\ session[r].end + Lookback < instant
          BY <1>1, <5>1, SealedRow
        <5>3. instant \in Nat
          BY <1>1, InstantsNat DEF TypeInv, SessionTypeOK
        <5> QED BY <5>2, <5>3, SessionFacts
      <4>6. ASSUME KeptOrGone(session[r].end), session[r].end \in Shots'
            PROVE  owner'[session[r].end] # 0 /\ session'[owner'[session[r].end]].frozen
        BY <1>1, <4>5, <4>6, StaysOK
      <4>7. After(session[r].end)' = After(session[r].end)
        BY <1>3, <4>2 DEF After
      <4>8. KeptOrGone(session[r].end) => KeptOrGone(session[r].end)'
        BY <4>2, <4>6 DEF KeptOrGone
      <4> QED BY <4>1, <4>4, <4>7, <4>8
    <3> QED BY <2>9, <3>1, <3>2
  <2>15. SealedInv'
    BY <2>12, <2>14 DEF SealedInv, Off
  <2>16. ASSUME NEW o \in Coming'
         PROVE  o \in Coming /\ o # c /\ o \in plan /\ o.op = "put" /\ ClearOK(o)
    <3>1. o \in plan /\ o # c
      BY <1>2, <1>4 DEF Coming
    <3>2. o \in Coming /\ o.op = "put"
      BY <2>3, <3>1 DEF Coming, First
    <3> QED BY <2>1, <3>1, <3>2 DEF ComingOK
  <2>17. ASSUME NEW o \in Coming' PROVE ComingOK(o)'
    <3>1. /\ KeptOrGone(o.draft.start) => KeptOrGone(o.draft.start)'
          /\ Covered(o.draft.end)'
      BY <1>1, <1>3, <2>16, ComingStays DEF ClearOK
    <3>2. ASSUME ~KeptOrGone(o.draft.start), NEW r \in Sealed' PROVE Off(o.draft, session'[r])
      <4>1. CASE r = c.row
        <5>1. Off(o.draft, c.draft)
          BY <2>1, <2>2, <2>16
        <5> QED BY <2>11, <4>1, <5>1 DEF Off
      <4>2. CASE r \in Sealed
        BY <2>10, <2>16, <3>2, <4>2 DEF ClearOK
      <4> QED BY <2>9, <4>1, <4>2
    <3> QED BY <1>2, <2>16, <3>1, <3>2 DEF ComingOK, ClearOK, StageOK, Off
  <2>18. \A r \in Unfrozen' : ~Due(r)'
    <3>1. \A r \in Unfrozen' : session'[r].end = session[r].end
      BY <2>4 DEF Unfrozen, Live
    <3> QED BY <1>2, <2>4, <3>1 DEF Due
  <2>19. ChunkInv'
    BY <1>2, <1>4, <2>1, <2>16, <2>17, <2>18 DEF ChunkInv, Off
  <2> QED BY <1>5, <2>15, <2>19
<1> QED BY <1>6, <1>7

\* Reading the row again changes nothing, and undoing it ends the pass.
LEMMA ConfirmDisjoint ==
    ASSUME DisjointInv, NEW c \in plan, Confirm(c)
    PROVE  SealedInv' /\ TailInv' /\ ChunkInv'
<1>1. TypeInv /\ SealedInv /\ ChunkInv /\ TypeInv' /\ Steady
  BY ConfirmType DEF DisjointInv
<1> DEFINE u == Call("undo", c.row, c.draft)
<1>2. /\ c.op = "confirm"
      /\ UNCHANGED <<instant, shot, owner, session, checkpoint, pass, neglected, torn, upsets>>
      /\ plan' = plan \ {c} \/ plan' = {u}
  BY DEF Confirm, NextCall
<1>2a. u.op = "undo"
  BY DEF Call
<1> HIDE DEF u
<1>2b. pass.pc = "backfill"
  BY <1>1, ConfirmType
<1>3. Sealed' \subseteq Sealed
  BY <1>2 DEF Sealed, FrozenRows, Live
<1>4. SealedInv' /\ TailInv'
  BY <1>1, <1>2, <1>2b, <1>3, SealedStays DEF TailInv
<1>5. CASE pass.whole
  <2>1. \A o \in plan : o.op \in First => o = c
    BY <1>1, <1>2 DEF TypeInv, CallsInv, First
  <2>2. Coming' \subseteq Coming /\ (\A o \in plan' : o.op # "own")
    BY <1>1, <1>2, <1>2a, <1>2b, <1>5 DEF Coming, ChunkInv
  <2>3. DueCalls = {}
    BY <1>2, <2>1 DEF DueCalls, First
  <2>4. \A o \in Coming' : StageOK(o)'
    BY <1>2, <2>1, <2>2 DEF Coming, StageOK, First
  <2>5. ChunkInv'
    BY <1>1, <1>2, <1>2b, <1>5, <2>2, <2>3, <2>4, ChunkStays
  <2> QED BY <1>4, <2>5
<1>6. CASE ~pass.whole
  BY <1>2, <1>4, <1>6 DEF ChunkInv
<1> QED BY <1>5, <1>6

\* Undoing deletes a row that is not frozen.
LEMMA UndoDisjoint ==
    ASSUME DisjointInv, NEW c \in plan, Undo(c)
    PROVE  SealedInv' /\ TailInv' /\ ChunkInv'
<1>1. TypeInv /\ SealedInv /\ TypeInv' /\ Steady
  BY UndoType DEF DisjointInv
<1>2. c.row \in SessionRows /\ pass' = NoPass /\ Deleted(c.row) /\ torn' = torn
  BY <1>1, UndoType
<1>3. /\ \A s \in SessionRows : s # c.row \/ session[s].frozen => session'[s] = session[s]
      /\ ~session[c.row].frozen => session'[c.row] = NoRow
  BY <1>1, <1>2, DeletedOK
<1>4. FrozenRows' \subseteq FrozenRows
  BY <1>2, <1>3 DEF FrozenRows, Live, NoRow
<1>5. Sealed' \subseteq Sealed
  BY <1>2, <1>4 DEF Sealed
<1> QED BY <1>1, <1>2, <1>5, NoPassIs, SealedStays DEF TailInv, ChunkInv

-----------------------------------------------------------------------------
(* The steps that make no call. *)

\* The cursor, a failure and a crash end the pass,
LEMMA AwakeDisjoint ==
    ASSUME DisjointInv, SaveCheckpoint \/ CallFails \/ ProcessDies
    PROVE  SealedInv' /\ TailInv' /\ ChunkInv'
<1>1. TypeInv /\ SealedInv /\ TypeInv' /\ Steady
  BY SaveCheckpointType, CallFailsType, ProcessDiesType DEF DisjointInv
<1>2. UNCHANGED <<session, torn>>
  BY DEF SaveCheckpoint, CallFails, ProcessDies
<1>3. Sealed' \subseteq Sealed
  BY <1>2 DEF Sealed, FrozenRows, Live
<1>4. pass' = NoPass \/ (~pass'.whole /\ pass'.pc = "incremental")
  <2>1. \/ pass' = NoPass
        \/ pass' = [pass EXCEPT !.whole = FALSE] /\ pass.pc = "incremental"
    BY DEF SaveCheckpoint, CallFails, ProcessDies
  <2>2. pass \in Passes
    BY <1>1 DEF TypeInv, SessionTypeOK
  <2> QED BY <2>1, <2>2 DEF Passes
<1> QED BY <1>1, <1>3, <1>4, NoPassIs, SealedStays DEF TailInv, ChunkInv

\* a new frame is after every sealed row,
LEMMA TickDisjoint ==
    ASSUME DisjointInv, Tick
    PROVE  SealedInv' /\ TailInv' /\ ChunkInv'
<1>1. TypeInv /\ SealedInv /\ TypeInv' /\ Steady
  BY TickType DEF DisjointInv
<1>2. UNCHANGED <<session, torn, pass>> /\ pass.pc = "asleep"
  BY DEF Tick
<1>3. Sealed' \subseteq Sealed
  BY <1>2 DEF Sealed, FrozenRows, Live
<1> QED BY <1>1, <1>2, <1>3, SealedStays DEF TailInv, ChunkInv

\* and a deleted one moves no row.
LEMMA QuietDisjoint ==
    ASSUME DisjointInv, (\E t \in Instants : DeleteFrame(t)) \/ UNCHANGED sessionVars
    PROVE  SealedInv' /\ TailInv' /\ ChunkInv'
<1>1. TypeInv /\ SealedInv /\ TailInv /\ ChunkInv /\ TypeInv' /\ Steady
  BY DeleteFrameType, StutterType DEF DisjointInv
<1>2. UNCHANGED <<session, torn, pass, plan>>
  BY DEF DeleteFrame, sessionVars
<1>3. Sealed' \subseteq Sealed /\ Puts' \subseteq Puts
  BY <1>2 DEF Sealed, FrozenRows, Live, Puts
<1>4. SealedInv'
  BY <1>1, <1>3, SealedStays
<1>5. \A r \in Settled' : r \in Settled /\ session'[r] = session[r]
  BY <1>2, SettledSame
<1>6. CASE pass.pc \in {"incremental", "freeze"} /\ pass.whole
  <2>1. TailInv'
    BY <1>1, <1>3, <1>5, <1>6, TailStays
  <2> QED BY <1>2, <1>4, <1>6, <2>1 DEF ChunkInv
<1>7. CASE pass.pc \in {"open", "backfill"} /\ pass.whole
  <2>1. Shots' \subseteq Shots /\ \A t \in Shots' : owner'[t] = owner[t]
    BY <1>1 DEF DeleteFrame, sessionVars, Shots, TypeInv, SessionTypeOK
  <2>2. \A o \in Coming : StageOK(o)
    BY <1>1, <1>7 DEF ChunkInv, ComingOK
  <2>3. Sealed' = Sealed /\ Coming' = Coming /\ DueCalls' = DueCalls
    BY <1>2 DEF Sealed, FrozenRows, Live, Coming, DueCalls
  <2>4. ASSUME NEW o \in Coming' PROVE StageOK(o)'
    <3>1. OwnedBy(o.row)' \subseteq OwnedBy(o.row)
      BY <2>1 DEF OwnedBy
    <3>2. StageOK(o)
      BY <2>2, <2>3
    <3> QED BY <1>2, <2>1, <2>3, <3>1, <3>2 DEF StageOK, Off
  <2>5. \A o \in plan' : o.op # "own"
    BY <1>1, <1>2, <1>7 DEF ChunkInv
  <2>6. ChunkInv'
    BY <1>1, <1>2, <1>7, <2>3, <2>4, <2>5, ChunkStays
  <2> QED BY <1>2, <1>4, <1>7, <2>6 DEF TailInv
<1>8. CASE pass.pc = "asleep" \/ ~pass.whole
  BY <1>2, <1>4, <1>8 DEF TailInv, ChunkInv
<1>9. pass \in Passes
  BY <1>1 DEF TypeInv, SessionTypeOK
<1> QED BY <1>6, <1>7, <1>8, <1>9 DEF Passes

\* At the start there is no row.
LEMMA SessionInitDisjoint == SessionInit => DisjointInv
<1> SUFFICES ASSUME SessionInit PROVE DisjointInv
  OBVIOUS
<1>1. TypeInv
  BY SessionInitType
<1>2. FrozenRows = {} /\ pass.pc = "asleep"
  BY DEF SessionInit, FrozenRows, Live, NoRow, NoPass
<1> QED BY <1>1, <1>2 DEF DisjointInv, SealedInv, TailInv, ChunkInv, Sealed

\* Together: DisjointInv is inductive.
LEMMA SessionStepDisjoint ==
    ASSUME DisjointInv, [SessionNext]_sessionVars
    PROVE  DisjointInv'
<1>1. TypeInv'
  BY SessionStepType DEF DisjointInv
<1>2. SealedInv' /\ TailInv' /\ ChunkInv'
  <2>1. CASE PassBegins \/ PassFreezes \/ BackfillOpens
    BY <2>1, PassBeginsDisjoint, PassFreezesDisjoint, BackfillOpensDisjoint
  <2>2. CASE SaveCheckpoint \/ CallFails \/ ProcessDies
    BY <2>2, AwakeDisjoint
  <2>3. ASSUME NEW c \in plan,
               \/ Release(c) \/ Drop(c) \/ Put(c) \/ Assign(c)
               \/ Meta(c) \/ Own(c) \/ Seal(c) \/ Confirm(c) \/ Undo(c)
        PROVE  SealedInv' /\ TailInv' /\ ChunkInv'
    BY <2>3, ReleaseDisjoint, DropDisjoint, PutDisjoint, AssignDisjoint,
       MetaDisjoint, OwnDisjoint, SealDisjoint, ConfirmDisjoint, UndoDisjoint
  <2>4. ASSUME NEW throttled \in BOOLEAN, Freeze(throttled)
        PROVE  SealedInv' /\ TailInv' /\ ChunkInv'
    BY <2>4, FreezeDisjoint
  <2>5. CASE Tick
    BY <2>5, TickDisjoint
  <2>6. CASE (\E t \in Instants : DeleteFrame(t)) \/ UNCHANGED sessionVars
    BY <2>6, QuietDisjoint
  <2> QED BY <2>1, <2>2, <2>3, <2>4, <2>5, <2>6 DEF SessionNext
<1> QED BY <1>1, <1>2 DEF DisjointInv

\* Two frozen sessions never overlap, wherever passes were cut off and whichever
\* part of the scheduler got to a stretch first, unless one was frozen in a pass
\* that went on after a part of it had failed (trim_drafts_against_frozen,
\* safe_backfill_cut, own_or_bail).
THEOREM FrozenSafety == SessionSpec => []FrozenDisjoint
<1>1. SessionInit => DisjointInv
  BY SessionInitDisjoint
<1>2. DisjointInv /\ [SessionNext]_sessionVars => DisjointInv'
  BY SessionStepDisjoint
<1>3. DisjointInv => FrozenDisjoint
  <2> SUFFICES ASSUME DisjointInv, NEW r \in Live \ torn, NEW s \in Live \ torn, r # s,
                      session[r].frozen, session[s].frozen
               PROVE  Apart(r, s)
    BY DEF FrozenDisjoint
  <2>1. r \in Sealed /\ s \in Sealed
    BY DEF Sealed, FrozenRows
  <2> QED BY <2>1 DEF DisjointInv, SealedInv, Off, Apart
<1> QED BY <1>1, <1>2, <1>3, PTL DEF SessionSpec

-----------------------------------------------------------------------------
(* The backfill loses nothing: why a frame behind the cursor is a frozen     *)
(* row's, or in the span of one, or of a stretch too short to be a session.  *)

In(t, i) == i.start <= t /\ t <= i.end
FrozenOwned(t) == owner[t] # 0 /\ session[owner[t]].frozen
Short(F, t) == Max(TrackOf(F, t)) - Min(TrackOf(F, t)) < MinLength

\* No session goes on over this instant.
Gap(at) == \A a, b \in Shots : a < at /\ at <= b => a + MergeGap <= b

GapInv ==
    /\ checkpoint.cursor + Lookback <= instant
    /\ Gap(checkpoint.cursor)
    /\ pass.pc = "backfill" => /\ Gap(pass.cut) /\ pass.cut + Lookback <= instant
                               /\ checkpoint.target # 0

\* What ended has ended for good: a frame that goes on with it is covered.
Ended(e) == e + MergeGap <= instant /\ Covered(e)

ClosedInv ==
    /\ \A r \in Live : session[r].end # 0 => Ended(session[r].end)
    /\ \A c \in Coming : ~c.draft.open => Ended(c.draft.end)

\* A row that comes has the frames of its span.
FullCalls == pass.whole =>
    \A c \in Coming : /\ c.draft.end <= instant
                      /\ \A t \in Shots : In(t, c.draft) => t \in c.draft.ids

\* The row of a call of a chunk is frozen with it, and has its frames by then.
PlanInv == pass.pc = "backfill" => \A c \in plan :
    /\ ~c.draft.open /\ c.draft.end + Lookback < pass.now
    /\ c.op # "put" => session[c.row].end = c.draft.end
    /\ c.op \in {"extend", "add"} => session[c.row].frozen
    /\ c.op \in {"assign", "add"} => \A t \in pass.owned[c.row] \cap Shots : owner[t] = c.row
    /\ c.op \in {"freeze", "confirm"} => \A t \in c.draft.ids \cap Shots :
                                            owner[t] = c.row \/ FrozenOwned(t)

\* The rows as the incremental pass leaves them, with their frames.
Laid == {r \in Unfrozen : session[r].end # 0
                          /\ \A c \in plan : c.op \in {"put", "drop", "assign"} => c.row # r}

TailFull == pass.pc \in {"incremental", "freeze"} /\ pass.whole =>
    /\ \A c \in plan : c.op \in {"release", "drop"} => Laid = {} /\ \A o \in plan : o.op # "assign"
    /\ \A r, s \in SessionRows : r # s => pass.owned[r] \cap pass.owned[s] = {}
    /\ \A c, d \in Coming : c # d => Off(c.draft, d.draft)
    /\ \A c \in Coming : c.op = "assign" => session[c.row] = RowOf(c.draft)
    /\ \A c \in Coming, t \in Shots : t \in c.draft.ids =>
          owner[t] = 0 \/ FrozenOwned(t) \/ t \in pass.owned[owner[t]]
    /\ \A c \in Coming, r \in Sealed \cup Laid : Off(c.draft, session[r])
    /\ \A r \in Laid, t \in Shots : In(t, session[r]) =>
          owner[t] = r \/ FrozenOwned(t) \/ t \in neglected

FullInv ==
    \A r \in Sealed, t \in Shots : In(t, session[r]) => FrozenOwned(t) \/ t \in neglected

Settles(t) == Short(Shots, t) \/ FrozenOwned(t) \/ \E g \in FrozenRows : In(t, session[g])

BehindInv == \A t \in Shots :
    /\ t < checkpoint.cursor => Settles(t)
    /\ pass.pc = "backfill" /\ t < pass.cut =>
          Settles(t) \/ \E c \in plan : t \in c.draft.ids \/ c.op = "undo"

LossInv == /\ GapInv /\ ClosedInv /\ FullCalls /\ PlanInv
           /\ TailFull /\ FullInv /\ BehindInv

-----------------------------------------------------------------------------
(* A track between two gaps gets no longer if no frame comes between them.  *)

\* A track that is cut at gaps, or of which frames are deleted, is part of the one
\* it came from.
LEMMA TrackShrinks ==
    ASSUME NEW F \in SUBSET Instants, NEW G \in SUBSET Instants, NEW low \in Nat, NEW high \in Nat,
           NEW t \in G, low <= t, t < high,
           \A u \in G : low <= u /\ u < high => u \in F,
           \A a, b \in G : a < low /\ low <= b => a + MergeGap <= b,
           \A a, b \in G : a < high /\ high <= b => a + MergeGap <= b
    PROVE  TrackOf(G, t) \subseteq TrackOf(F, t)
<1> SUFFICES ASSUME NEW u \in G, Linked(G, t, u) PROVE u \in F /\ Linked(F, t, u)
  BY DEF TrackOf
<1>1. G \subseteq Nat /\ F \subseteq Nat /\ G \subseteq 0..LastInstant /\ LastInstant \in Nat
      /\ MergeGap \in Nat /\ 1 <= MergeGap
  BY InstantsNat, SessionFacts
<1>2. \A s \in G : (s >= t \/ s >= u) /\ (s < t \/ s < u) => \E n \in G : s < n /\ n - s < MergeGap
  BY DEF Linked
<1>3. ASSUME u < low PROVE FALSE
  <2> DEFINE S == {x \in G : x < low /\ u <= x}
  <2>1. S \in SUBSET (0..LastInstant) /\ u \in S
    <3>1. u \in Nat /\ u <= u
      BY <1>1
    <3>2. u \in S
      BY <1>3, <3>1
    <3>3. S \subseteq G
      OBVIOUS
    <3> QED BY <1>1, <3>2, <3>3
  <2>2. PICK s \in S : \A k \in S : k <= s
    BY <1>1, <2>1, GreatestNatural
  <2>3. s \in G /\ s < low /\ u <= s /\ s < t
    BY <1>1, <2>2
  <2>4. PICK n \in G : s < n /\ n - s < MergeGap
    BY <1>1, <1>2, <2>3
  <2>5. low <= n
    BY <1>1, <2>2, <2>3, <2>4
  <2>6. s + MergeGap <= n
    BY <2>3, <2>5
  <2> QED BY <1>1, <2>3, <2>4, <2>6
<1>4. ASSUME high <= u PROVE FALSE
  <2> DEFINE S == {x \in G : x < high}
  <2>1. S \in SUBSET (0..LastInstant) /\ t \in S
    BY <1>1
  <2>2. PICK s \in S : \A k \in S : k <= s
    BY <1>1, <2>1, GreatestNatural
  <2>3. s \in G /\ s < high /\ t <= s /\ s < u
    BY <1>1, <1>4, <2>1, <2>2
  <2>4. PICK n \in G : s < n /\ n - s < MergeGap
    BY <1>1, <1>2, <2>3
  <2>5. high <= n
    BY <1>1, <2>2, <2>3, <2>4
  <2>6. s + MergeGap <= n
    BY <2>3, <2>5
  <2> QED BY <1>1, <2>3, <2>4, <2>6
<1>5. low <= u /\ u < high /\ u \in F
  BY <1>1, <1>3, <1>4
<1>6. ASSUME NEW s \in F, (s >= t \/ s >= u) /\ (s < t \/ s < u)
      PROVE  \E n \in F : s < n /\ n - s < MergeGap
  <2> DEFINE S == {x \in G : x <= s}
  <2>1. S \in SUBSET (0..LastInstant) /\ (t \in S \/ u \in S)
    BY <1>1, <1>6
  <2>2. PICK x \in S : \A k \in S : k <= x
    BY <1>1, <2>1, GreatestNatural
  <2>3. x \in G /\ x <= s /\ (x >= t \/ x >= u) /\ (x < t \/ x < u)
    BY <1>1, <1>6, <2>1, <2>2
  <2>4. PICK n \in G : x < n /\ n - x < MergeGap
    BY <1>2, <2>3
  <2>5. s < n
    BY <1>1, <2>2, <2>4
  <2>6. low <= n /\ x < high
    BY <1>1, <1>5, <2>3, <2>4
  <2>7. n < high
    <3>1. high <= n => x + MergeGap <= n
      BY <2>3, <2>6
    <3> QED BY <1>1, <2>3, <2>4, <3>1
  <2> QED BY <1>1, <2>3, <2>4, <2>5, <2>6, <2>7
<1> QED BY <1>5, <1>6 DEF Linked

\* So a stretch too short to be a session stays too short.
LEMMA ShortStays ==
    ASSUME NEW F \in SUBSET Instants, NEW G \in SUBSET Instants, NEW t \in F, t \in G,
           TrackOf(G, t) \subseteq TrackOf(F, t), Short(F, t)
    PROVE  Short(G, t)
<1> DEFINE S == TrackOf(F, t)
           T == TrackOf(G, t)
<1>1. IsTrack(F, S) /\ IsTrack(G, T)
  BY TrackOK
<1>2. {Min(S), Max(S), Min(T), Max(T)} \subseteq Nat
  BY <1>1, InstantsNat DEF IsTrack
<1>3. Min(S) <= Min(T) /\ Max(T) <= Max(S)
  BY <1>1 DEF IsTrack
<1>4. Max(S) - Min(S) < MinLength
  BY DEF Short
<1> HIDE DEF S, T
<1>5. Max(T) - Min(T) < MinLength
  BY <1>2, <1>3, <1>4, SessionFacts
<1> QED BY <1>5 DEF Short, T

\* A draft has the frames of its span.
LEMMA SegmentFull ==
    ASSUME NEW F \in SUBSET Instants, NEW now, NEW d \in Segment(F, now), NEW t \in F, In(t, d)
    PROVE  t \in d.ids
<1>1. PICK w \in F : d = Draft(TrackOf(F, w), Max(TrackOf(F, w)) = Max(F)
                                                /\ now < Max(TrackOf(F, w)) + MergeGap)
  BY SegmentIs
<1> DEFINE T == TrackOf(F, w)
<1>2. IsTrack(F, T) /\ d.start = Min(T) /\ d.end = Max(T) /\ d.ids = T
  BY <1>1, TrackOK, DraftFields
<1>3. Min(T) \in F /\ Max(T) \in F /\ Linked(F, w, Min(T)) /\ Linked(F, w, Max(T))
  BY <1>2 DEF IsTrack, TrackOf
<1>4. Linked(F, Min(T), Max(T))
  BY <1>3, LinkedBack, LinkedOn
<1>5. Linked(F, Min(T), t)
  BY <1>2, <1>3, <1>4, LinkedBetween DEF In
<1>6. Linked(F, w, t)
  BY <1>3, <1>5, LinkedOn
<1> QED BY <1>2, <1>6 DEF TrackOf

-----------------------------------------------------------------------------
(* What stays so at a step. *)

\* A frame of a frozen row stays with it.
LEMMA OwnedStays ==
    ASSUME TypeInv, Steady, NEW t \in Shots', FrozenOwned(t)
    PROVE  FrozenOwned(t)'
<1>1. owner[t] # 0 /\ session[owner[t]].frozen /\ t \in Instants
  BY DEF FrozenOwned, Shots
<1>2. owner[t] \in FrozenRows
  BY <1>1 DEF TypeInv, SessionTypeOK, FrozenRows
<1>3. owner'[t] = owner[t] /\ session'[owner[t]] = session[owner[t]]
  BY <1>1, <1>2 DEF Steady
<1> QED BY <1>1, <1>3 DEF FrozenOwned

\* No frame is captured in the past,
LEMMA PastShot ==
    ASSUME TypeInv, Steady, NEW t \in Shots', t <= instant
    PROVE  t \in Shots
<1>1. instant \in Nat /\ t \in Nat
  BY InstantsNat DEF TypeInv, SessionTypeOK, Shots
<1>2. t \in Shots \/ t = instant + 1
  BY DEF Steady
<1> QED BY <1>1, <1>2

\* so a gap far enough back remains one,
LEMMA GapOn ==
    ASSUME TypeInv, Steady, NEW x \in Nat, x + Lookback <= instant, Gap(x)
    PROVE  Gap(x)'
<1> SUFFICES ASSUME NEW a \in Shots', NEW b \in Shots', a < x, x <= b
             PROVE  a + MergeGap <= b
  BY DEF Gap
<1>1. instant \in Nat /\ a \in Nat /\ b \in Nat
  BY InstantsNat DEF TypeInv, SessionTypeOK, Shots
<1>2. a \in Shots
  <2>1. a <= instant
    BY <1>1, SessionFacts
  <2> QED BY <2>1, PastShot
<1>3. CASE b <= instant
  <2>1. b \in Shots
    BY <1>3, PastShot
  <2> QED BY <1>2, <2>1 DEF Gap
<1>4. CASE instant < b
  BY <1>1, <1>4, SessionFacts
<1> QED BY <1>1, <1>3, <1>4

\* and the cursor and the cut remain in theirs.
LEMMA GapStays ==
    ASSUME TypeInv, Steady, GapInv, instant' \in {instant, instant + 1}, checkpoint' = checkpoint,
           pass'.pc = "backfill" => pass.pc = "backfill" /\ pass'.cut = pass.cut
    PROVE  GapInv'
<1>1. checkpoint.cursor \in Nat /\ pass.cut \in Nat /\ instant \in Nat
  BY SessionFacts, InstantsNat DEF TypeInv, SessionTypeOK, Passes
<1>2. /\ checkpoint.cursor + Lookback <= instant /\ Gap(checkpoint.cursor)
      /\ pass.pc = "backfill" => /\ Gap(pass.cut) /\ pass.cut + Lookback <= instant
                                 /\ checkpoint.target # 0
  BY DEF GapInv
<1>3. Gap(checkpoint.cursor)' /\ checkpoint.cursor + Lookback <= instant'
  <2>1. PICK x \in Nat : x = checkpoint.cursor
    BY <1>1
  <2>2. Gap(x)' /\ x + Lookback <= instant'
    BY <1>1, <1>2, <2>1, SessionFacts, GapOn
  <2> QED BY <2>1, <2>2 DEF Gap
<1>4. ASSUME pass'.pc = "backfill" PROVE Gap(pass.cut)' /\ pass'.cut + Lookback <= instant'
  <2>1. PICK x \in Nat : x = pass.cut /\ pass'.cut = x /\ pass.pc = "backfill"
    BY <1>1, <1>4
  <2>2. Gap(x)' /\ x + Lookback <= instant'
    BY <1>1, <1>2, <1>4, <2>1, SessionFacts, GapOn
  <2> QED BY <2>1, <2>2 DEF Gap
<1> QED BY <1>2, <1>3, <1>4 DEF GapInv, Gap

\* A frame behind a gap that is accounted for stays so.
LEMMA SettlesStays ==
    ASSUME TypeInv, Steady, NEW x \in Nat, x + Lookback <= instant, Gap(x),
           NEW t \in Shots', t < x, Settles(t)
    PROVE  Settles(t)'
<1>1. CASE FrozenOwned(t)
  BY <1>1, OwnedStays DEF Settles
<1>2. CASE \E g \in FrozenRows : In(t, session[g])
  <2>1. PICK g \in FrozenRows : In(t, session[g])
    BY <1>2
  <2>2. session'[g] = session[g]
    BY DEF Steady
  <2>3. g \in FrozenRows'
    BY <2>2 DEF FrozenRows, Live
  <2> QED BY <2>1, <2>2, <2>3 DEF Settles, In
<1>3. CASE Short(Shots, t)
  <2> DEFINE F == Shots
             G == Shots'
  <2>1. F \in SUBSET Instants /\ G \in SUBSET Instants /\ instant \in Nat /\ t \in G /\ t \in Nat
    BY InstantsNat DEF Shots, TypeInv, SessionTypeOK
  <2>2. \A u \in G : u < x => u \in F
    <3>1. \A u \in G : u < x => u <= instant
      BY <2>1, InstantsNat, SessionFacts
    <3> QED BY <3>1, PastShot
  <2>3. \A a, b \in G : a < x /\ x <= b => a + MergeGap <= b
    BY GapOn DEF Gap
  <2>4. t \in F /\ Short(F, t)
    BY <1>3, <2>1, <2>2
  <2>5. \A a \in G : a \in Nat
    BY <2>1, InstantsNat
  <2> HIDE DEF F, G
  <2>6. TrackOf(G, t) \subseteq TrackOf(F, t)
    <3>1. \A a, b \in G : a < 0 /\ 0 <= b => a + MergeGap <= b
      BY <2>5
    <3>2. 0 \in Nat /\ 0 <= t /\ \A u \in G : 0 <= u /\ u < x => u \in F
      BY <2>1, <2>2
    <3> QED BY <2>1, <2>3, <2>4, <3>1, <3>2, TrackShrinks
  <2>7. Short(G, t)
    BY <2>1, <2>4, <2>6, ShortStays
  <2>8. Short(Shots, t)'
    BY <2>7 DEF G, Short, TrackOf, Linked
  <2> QED BY <2>8 DEF Settles
<1> QED BY <1>1, <1>2, <1>3 DEF Settles

\* And so do all behind the cursor.
LEMMA BehindStays ==
    ASSUME TypeInv, Steady, GapInv, BehindInv, checkpoint' = checkpoint,
           pass'.pc = "backfill" =>
               /\ pass.pc = "backfill" /\ pass'.cut = pass.cut
               /\ \A c \in plan : c.op = "undo" => c \in plan'
               /\ \A c \in plan, t \in Shots' : t \in c.draft.ids =>
                     FrozenOwned(t)' \/ \E o \in plan' : t \in o.draft.ids \/ o.op = "undo"
    PROVE  BehindInv'
<1>1. checkpoint.cursor \in Nat /\ pass.cut \in Nat /\ instant \in Nat
  BY SessionFacts, InstantsNat DEF TypeInv, SessionTypeOK, Passes
<1>2. ASSUME NEW t \in Shots', t < checkpoint.cursor PROVE Settles(t)'
  <2>1. PICK x \in Nat : x = checkpoint.cursor
    BY <1>1
  <2>2. x + Lookback <= instant /\ Gap(x) /\ t < x
    BY <1>2, <2>1 DEF GapInv
  <2>3. t \in Shots
    <3>1. t <= instant
      BY <1>1, <2>2, InstantsNat, SessionFacts DEF Shots
    <3> QED BY <3>1, PastShot
  <2>4. Settles(t)
    BY <1>2, <2>3 DEF BehindInv
  <2> QED BY <2>2, <2>4, SettlesStays
<1>3. ASSUME pass'.pc = "backfill", NEW t \in Shots', t < pass.cut
      PROVE  Settles(t)' \/ \E c \in plan' : t \in c.draft.ids \/ c.op = "undo"
  <2>1. PICK x \in Nat : x = pass.cut
    BY <1>1
  <2>2. x + Lookback <= instant /\ Gap(x) /\ t < x
    BY <1>3, <2>1 DEF GapInv
  <2>3. t \in Shots
    <3>1. t <= instant
      BY <1>1, <2>2, InstantsNat, SessionFacts DEF Shots
    <3> QED BY <3>1, PastShot
  <2>4. Settles(t) \/ \E c \in plan : t \in c.draft.ids \/ c.op = "undo"
    BY <1>3, <2>3 DEF BehindInv
  <2>5. Settles(t) => Settles(t)'
    BY <2>2, SettlesStays
  <2> QED BY <1>3, <2>4, <2>5 DEF Settles
<1> QED BY <1>2, <1>3 DEF BehindInv

\* An end stays one.
LEMMA EndedStays ==
    ASSUME TypeInv, Steady, instant' \in {instant, instant + 1}, NEW e \in Nat, Ended(e)
    PROVE  Ended(e)'
<1>1. instant \in Nat /\ e + MergeGap <= instant /\ MergeGap \in Nat
  BY InstantsNat, SessionFacts DEF TypeInv, SessionTypeOK, Ended
<1>2. ASSUME NEW t \in Shots', e < t, t < e + MergeGap
      PROVE  \E r \in FrozenRows' : e < session'[r].start /\ session'[r].start <= t
  <2>1. t <= instant
    BY <1>1, <1>2, InstantsNat DEF Shots
  <2>2. t \in After(e)
    BY <1>2, <2>1, PastShot DEF After
  <2>3. PICK r \in FrozenRows : e < session[r].start /\ session[r].start <= t
    BY <2>2 DEF Ended, Covered
  <2>4. session'[r] = session[r]
    BY DEF Steady
  <2>5. r \in FrozenRows'
    BY <2>4 DEF FrozenRows, Live
  <2> QED BY <2>3, <2>4, <2>5
<1>3. e + MergeGap <= instant'
  BY <1>1
<1> QED BY <1>2, <1>3 DEF Ended, Covered, After

\* The rows and calls after a step are those before, or a call's draft put; in a
\* pass that is not whole a call may come whose draft is known to have ended.
LEMMA CallsStay ==
    ASSUME TypeInv, TypeInv', Steady, ClosedInv, FullCalls, instant' \in {instant, instant + 1},
           \A r \in Live' : session'[r].end # 0 =>
               \/ r \in Live /\ session[r].end = session'[r].end
               \/ \E c \in Coming : ~c.draft.open /\ c.draft.end = session'[r].end,
           pass'.whole => pass.whole \/ Coming' = {},
           \A c \in Coming' : \/ \E d \in Coming : c.draft = d.draft
                              \/ ~pass'.whole /\ Ended(c.draft.end)
    PROVE  ClosedInv' /\ FullCalls'
<1>1. ASSUME NEW r \in Live', session'[r].end # 0 PROVE Ended(session[r].end)'
  <2>1. PICK e \in Nat : e = session'[r].end
    BY SessionFacts DEF TypeInv, SessionTypeOK, Rows, Live
  <2>2. Ended(e)
    BY <1>1, <2>1 DEF ClosedInv
  <2>3. Ended(e)'
    BY <2>2, EndedStays
  <2> QED BY <2>1, <2>3 DEF Ended, Covered, After
<1>2. ASSUME NEW c \in Coming'
      PROVE  ~c.draft.open => Ended(c.draft.end)'
  <2>1. c.draft \in Drafts
    BY CallFields DEF Coming, TypeInv, SessionTypeOK
  <2>2. PICK e \in Nat : e = c.draft.end
    BY <2>1, SessionFacts DEF Drafts
  <2>3. ~c.draft.open => Ended(e)
    BY <2>2 DEF ClosedInv
  <2>4. ~c.draft.open => Ended(e)'
    BY <2>3, EndedStays
  <2> QED BY <2>2, <2>4 DEF Ended, Covered, After
<1>3. ASSUME pass'.whole, NEW c \in Coming'
      PROVE  c.draft.end <= instant' /\ \A t \in Shots' : In(t, c.draft) => t \in c.draft.ids
  <2>1. PICK d \in Coming : c.draft = d.draft
    BY <1>3
  <2>2. pass.whole /\ d.draft \in Drafts
    BY <1>3, CallFields DEF Coming, TypeInv, SessionTypeOK
  <2>3. PICK e \in Nat : e = c.draft.end
    BY <2>1, <2>2, SessionFacts DEF Drafts
  <2>4. e <= instant /\ instant \in Nat /\ \A t \in Shots : In(t, c.draft) => t \in c.draft.ids
    BY <2>1, <2>2, <2>3, InstantsNat DEF FullCalls, TypeInv, SessionTypeOK
  <2>5. ASSUME NEW t \in Shots', In(t, c.draft) PROVE t \in c.draft.ids
    <3>1. t <= e /\ t \in Nat
      BY <2>3, <2>5, InstantsNat DEF In, Shots
    <3>2. t <= instant
      BY <2>4, <3>1
    <3> QED BY <2>4, <2>5, <3>2, PastShot
  <2> QED BY <2>3, <2>4, <2>5
<1> QED BY <1>1, <1>2, <1>3 DEF ClosedInv, FullCalls, In

\* The frames of the sealed rows.
LEMMA FullStays ==
    ASSUME TypeInv, Steady, FullInv, Sealed' \subseteq Sealed,
           \A r \in Sealed', t \in Shots' : In(t, session[r]) /\ t \in neglected =>
               t \in neglected' \/ FrozenOwned(t)'
    PROVE  FullInv'
<1> SUFFICES ASSUME NEW r \in Sealed', NEW t \in Shots', In(t, session'[r])
             PROVE  FrozenOwned(t)' \/ t \in neglected'
  BY DEF FullInv, In
<1>1. r \in Sealed /\ r \in FrozenRows /\ session'[r] = session[r]
  BY DEF Steady, Sealed
<1>2. t <= instant
  <2>1. session[r].end \in Nat /\ session[r].end + Lookback < instant /\ instant \in Nat
    BY <1>1, SealedRow, InstantsNat DEF TypeInv, SessionTypeOK
  <2> QED BY <1>1, <2>1, InstantsNat, SessionFacts DEF In, Shots
<1>3. FrozenOwned(t) \/ t \in neglected
  BY <1>1, <1>2, PastShot DEF FullInv
<1> QED BY <1>1, <1>3, OwnedStays

-----------------------------------------------------------------------------
(* The steps of an incremental pass. *)

\* What no step of an incremental pass after its first disturbs.
LEMMA TailSteps ==
    ASSUME TypeInv, TypeInv', Steady, LossInv, pass' = pass, pass.pc = "incremental",
           UNCHANGED <<instant, checkpoint>>,
           \A r \in Live' : session'[r].end # 0 =>
               \/ r \in Live /\ session[r].end = session'[r].end
               \/ \E c \in Coming : ~c.draft.open /\ c.draft.end = session'[r].end,
           \A c \in Coming' : \E d \in Coming : c.draft = d.draft
    PROVE  GapInv' /\ ClosedInv' /\ FullCalls' /\ PlanInv' /\ BehindInv'
<1>1. GapInv'
  BY GapStays DEF LossInv
<1>2. BehindInv'
  BY BehindStays DEF LossInv
<1>3. ClosedInv' /\ FullCalls'
  <2>1. pass'.whole => pass.whole \/ Coming' = {}
    OBVIOUS
  <2>2. \A o \in Coming' : \/ \E d \in Coming : o.draft = d.draft
                           \/ ~pass'.whole /\ Ended(o.draft.end)
    OBVIOUS
  <2> QED BY <2>1, <2>2, CallsStay DEF LossInv
<1>4. PlanInv'
  BY DEF PlanInv
<1> QED BY <1>1, <1>2, <1>3, <1>4

\* No step loses a frame: letting stale frames go,
LEMMA ReleaseLoss ==
    ASSUME DisjointInv, LossInv, NEW c \in plan, Release(c)
    PROVE  LossInv'
<1> DEFINE F == OwnedBy(c.row) \ c.draft.ids
<1>1. TypeInv /\ TypeInv' /\ Steady
  BY ReleaseType DEF DisjointInv
<1>2. /\ c.op = "release" /\ plan' = plan \ {c} /\ owner' = Assigned(F, 0)
      /\ UNCHANGED <<instant, shot, session, checkpoint, pass, neglected, torn>>
  BY DEF Release, NextCall, Done
<1>3. pass.pc = "incremental" /\ pass.whole
  BY <1>1, <1>2 DEF TypeInv, SessionTypeOK, CallsInv, CallOK, First
<1>4. /\ Coming' = Coming /\ Live' = Live /\ Sealed' = Sealed /\ Shots' = Shots
      /\ Laid' = Laid
  BY <1>2 DEF Coming, Live, Sealed, FrozenRows, Shots, Unfrozen, Laid
<1>5. \A t \in Instants : owner'[t] = owner[t] \/ owner'[t] = 0
  <2> HIDE DEF F
  <2> QED BY <1>2 DEF Assigned
<1>6. GapInv' /\ ClosedInv' /\ FullCalls' /\ PlanInv' /\ BehindInv'
  BY <1>1, <1>2, <1>3, <1>4, TailSteps
<1>7. FullInv'
  BY <1>1, <1>2, <1>4, FullStays DEF LossInv
<1>8. TailFull'
  <2>1. /\ \A o \in plan : o.op \in {"release", "drop"} => Laid = {} /\ \A d \in plan : d.op # "assign"
        /\ \A r, s \in SessionRows : r # s => pass.owned[r] \cap pass.owned[s] = {}
        /\ \A o, d \in Coming : o # d => Off(o.draft, d.draft)
        /\ \A o \in Coming : o.op = "assign" => session[o.row] = RowOf(o.draft)
        /\ \A o \in Coming, t \in Shots : t \in o.draft.ids =>
              owner[t] = 0 \/ FrozenOwned(t) \/ t \in pass.owned[owner[t]]
        /\ \A o \in Coming, r \in Sealed \cup Laid : Off(o.draft, session[r])
    BY <1>3 DEF LossInv, TailFull
  <2>2. Laid = {}
    BY <1>2, <2>1
  <2>3. \A o \in Coming', t \in Shots' : t \in o.draft.ids =>
            owner'[t] = 0 \/ FrozenOwned(t)' \/ t \in pass'.owned[owner'[t]]
    <3> SUFFICES ASSUME NEW o \in Coming, NEW t \in Shots, t \in o.draft.ids, owner'[t] # 0
                 PROVE  FrozenOwned(t)' \/ t \in pass.owned[owner'[t]]
      BY <1>2, <1>4
    <3>1. owner'[t] = owner[t]
      BY <1>5 DEF Shots
    <3>2. FrozenOwned(t) \/ t \in pass.owned[owner[t]]
      BY <2>1, <3>1
    <3> QED BY <1>1, <1>4, <3>1, <3>2, OwnedStays
  <2> QED BY <1>2, <1>4, <2>1, <2>2, <2>3 DEF TailFull, Off, RowOf
<1> QED BY <1>6, <1>7, <1>8 DEF LossInv

\* dropping a row,
LEMMA DropLoss ==
    ASSUME DisjointInv, LossInv, NEW c \in plan, Drop(c)
    PROVE  LossInv'
<1>1. /\ TypeInv /\ TypeInv' /\ Steady
      /\ pass.pc = "incremental" /\ c.row \in SessionRows /\ session'[c.row] = NoRow
      /\ \A s \in SessionRows : s # c.row => session'[s] = session[s]
  BY DropType DEF DisjointInv
<1>2. /\ c.op = "drop" /\ plan' = plan \ {c} /\ Deleted(c.row)
      /\ UNCHANGED <<instant, shot, checkpoint, pass, neglected, torn>>
      /\ NextCall("drop", c)
  BY DEF Drop, NextCall, Done
<1>3. pass.whole /\ \A o \in plan : o.op # "assign"
  BY <1>1, <1>2, AssignFirst DEF TypeInv, CallsInv, First
<1>4. /\ Live' \subseteq Live /\ c.row \notin Live'
      /\ \A r \in Live' : session'[r] = session[r]
  BY <1>1 DEF Live, NoRow
<1>5. Sealed' \subseteq Sealed /\ Coming' = Coming /\ Shots' = Shots
  BY <1>2, <1>4 DEF Sealed, FrozenRows, Coming, Shots
<1>6. GapInv' /\ ClosedInv' /\ FullCalls' /\ PlanInv' /\ BehindInv'
  BY <1>1, <1>2, <1>4, <1>5, TailSteps
<1>7. FullInv'
  BY <1>1, <1>2, <1>5, FullStays DEF LossInv
<1>8. TailFull'
  <2>1. /\ \A o \in plan : o.op \in {"release", "drop"} => Laid = {} /\ \A d \in plan : d.op # "assign"
        /\ \A r, s \in SessionRows : r # s => pass.owned[r] \cap pass.owned[s] = {}
        /\ \A o, d \in Coming : o # d => Off(o.draft, d.draft)
        /\ \A o \in Coming, t \in Shots : t \in o.draft.ids =>
              owner[t] = 0 \/ FrozenOwned(t) \/ t \in pass.owned[owner[t]]
        /\ \A o \in Coming, r \in Sealed \cup Laid : Off(o.draft, session[r])
    BY <1>1, <1>3 DEF LossInv, TailFull
  <2>2. Laid = {}
    BY <1>2, <2>1
  <2>3. Laid' = {}
    <3> SUFFICES ASSUME NEW r \in Laid' PROVE FALSE
      OBVIOUS
    <3>1. r \in Unfrozen' /\ r \in Live' /\ session'[r].end # 0
          /\ \A o \in plan' : o.op \in {"put", "drop", "assign"} => o.row # r
      BY DEF Laid, Unfrozen
    <3>2. r # c.row /\ session'[r] = session[r] /\ r \in Unfrozen
      BY <1>4, <3>1 DEF Unfrozen
    <3>3. r \in Laid
      BY <1>2, <3>1, <3>2 DEF Laid
    <3> QED BY <2>2, <3>3
  <2>4. \A o \in Coming', t \in Shots' : t \in o.draft.ids =>
            owner'[t] = 0 \/ FrozenOwned(t)' \/ t \in pass'.owned[owner'[t]]
    <3> SUFFICES ASSUME NEW o \in Coming, NEW t \in Shots, t \in o.draft.ids, owner'[t] # 0
                 PROVE  FrozenOwned(t)' \/ t \in pass.owned[owner'[t]]
      BY <1>2, <1>5
    <3>1. owner'[t] = owner[t]
      BY <1>2 DEF Shots, Deleted
    <3>2. FrozenOwned(t) \/ t \in pass.owned[owner[t]]
      BY <2>1, <3>1
    <3> QED BY <1>1, <1>5, <3>1, <3>2, OwnedStays
  <2>5. \A o \in Coming', r \in Sealed' : Off(o.draft, session'[r])
    BY <1>4, <1>5, <2>1 DEF Sealed, FrozenRows
  <2>6. \A o \in Coming' : o.op # "assign"
    BY <1>3, <1>5 DEF Coming
  <2> QED BY <1>2, <1>5, <2>1, <2>3, <2>4, <2>5, <2>6 DEF TailFull, Off
<1> QED BY <1>6, <1>7, <1>8 DEF LossInv

\* giving a row its frames,
LEMMA AssignLoss ==
    ASSUME DisjointInv, LossInv, NEW c \in plan, Assign(c)
    PROVE  LossInv'
<1> DEFINE F == c.draft.ids \ pass.owned[c.row]
<1>1. TypeInv /\ TypeInv' /\ Steady
  BY AssignType DEF DisjointInv
<1>2. /\ c.op = "assign" /\ plan' = plan \ {c} /\ owner' = Assigned(F, c.row)
      /\ neglected' = (neglected \ c.draft.ids) \cup {t \in c.draft.ids \cap Shots : owner'[t] = 0}
      /\ UNCHANGED <<instant, shot, session, checkpoint, pass, torn>>
      /\ pass.pc = "incremental"
  BY DEF Assign, NextCall, Done
<1>3. /\ pass.whole /\ c \in Coming /\ c.row \in Unfrozen /\ c.row \in SessionRows
      /\ c.draft \in Drafts /\ Spans(c.draft)
  BY <1>1, <1>2, CallFields DEF TypeInv, SessionTypeOK, CallsInv, CallOK, Coming, Unfrozen, Live
<1>4. /\ Coming' = Coming \ {c} /\ Live' = Live /\ Sealed' = Sealed /\ Shots' = Shots
      /\ Laid' \subseteq Laid \cup {c.row}
  BY <1>2 DEF Coming, Live, Sealed, FrozenRows, Shots, Unfrozen, Laid
<1>5. /\ \A t \in Instants : t \notin c.draft.ids => owner'[t] = owner[t]
      /\ \A t \in pass.owned[c.row] : t \in Instants => owner'[t] = owner[t]
      /\ \A t \in Shots : t \in F => owner'[t] = c.row \/ FrozenOwned(t)
  <2>1. \A t \in Instants : t \notin F => owner'[t] = owner[t]
    BY <1>2 DEF Assigned, Assignable
  <2>2. \A t \in Shots : t \in F => owner'[t] = c.row \/ FrozenOwned(t)
    <3> HIDE DEF F
    <3> QED BY <1>2 DEF Assigned, Assignable, FrozenOwned, Shots
  <2> QED BY <2>1, <2>2
<1>6. /\ \A o \in plan : o.op \in {"release", "drop"} => Laid = {} /\ \A d \in plan : d.op # "assign"
      /\ \A r, s \in SessionRows : r # s => pass.owned[r] \cap pass.owned[s] = {}
      /\ \A o, d \in Coming : o # d => Off(o.draft, d.draft)
      /\ \A o \in Coming : o.op = "assign" => session[o.row] = RowOf(o.draft)
      /\ \A o \in Coming, t \in Shots : t \in o.draft.ids =>
            owner[t] = 0 \/ FrozenOwned(t) \/ t \in pass.owned[owner[t]]
      /\ \A o \in Coming, r \in Sealed \cup Laid : Off(o.draft, session[r])
      /\ \A r \in Laid, t \in Shots : In(t, session[r]) =>
            owner[t] = r \/ FrozenOwned(t) \/ t \in neglected
  BY <1>2, <1>3 DEF LossInv, TailFull
<1> HIDE DEF F
<1>7. GapInv' /\ ClosedInv' /\ FullCalls' /\ PlanInv' /\ BehindInv'
  BY <1>1, <1>2, <1>4, TailSteps
\* A frame of the draft is in no span that is off the draft's.
<1>8. ASSUME NEW i, {i.start, i.end} \subseteq Nat, Off(c.draft, i), NEW t \in Shots, In(t, i)
      PROVE  t \notin c.draft.ids
  <2>1. {c.draft.start, c.draft.end} \subseteq Nat /\ t \in Nat
    BY <1>3, InstantsNat DEF Drafts, Spans, Shots
  <2> QED BY <1>3, <1>8, <2>1 DEF Off, In, Spans
<1>9. \A r \in SessionRows : {session[r].start, session[r].end} \subseteq Nat
  BY <1>1, SessionFacts DEF TypeInv, SessionTypeOK, Rows
<1>10. \A r \in Sealed \cup Laid, t \in Shots : In(t, session[r]) => t \notin c.draft.ids
  BY <1>3, <1>6, <1>8, <1>9 DEF Sealed, FrozenRows, Laid, Unfrozen, Live
<1>11. FullInv'
  <2>1. \A r \in Sealed', t \in Shots' : In(t, session[r]) /\ t \in neglected => t \in neglected'
    BY <1>2, <1>4, <1>10
  <2> QED BY <1>1, <1>4, <2>1, FullStays DEF LossInv
<1>12. ASSUME NEW o \in Coming' PROVE o \in Coming /\ Off(o.draft, c.draft)
  BY <1>3, <1>4, <1>6
<1>13. ASSUME c.row \in Laid'
       PROVE  session[c.row].start = c.draft.start /\ session[c.row].end = c.draft.end
  <2>1. session[c.row] = RowOf(c.draft) /\ session[c.row].end # 0
    BY <1>2, <1>3, <1>6, <1>13 DEF Laid
  <2> QED BY <1>3, <2>1, RowOfOK
<1>14. TailFull'
  <2>1. \A o \in Coming', t \in Shots' : t \in o.draft.ids =>
            owner'[t] = 0 \/ FrozenOwned(t)' \/ t \in pass'.owned[owner'[t]]
    <3> SUFFICES ASSUME NEW o \in Coming', NEW t \in Shots, t \in o.draft.ids
                 PROVE  owner'[t] = 0 \/ FrozenOwned(t)' \/ t \in pass.owned[owner'[t]]
      BY <1>2, <1>4
    <3>1. o \in Coming /\ Off(c.draft, o.draft)
      BY <1>12 DEF Off
    <3>2. o.draft \in Drafts /\ Spans(o.draft)
      BY <1>1, <3>1, CallFields DEF TypeInv, SessionTypeOK, CallsInv, CallOK, Coming
    <3>3. {o.draft.start, o.draft.end} \subseteq Nat
      BY <3>2, InstantsNat DEF Drafts, Spans
    <3>4. t \notin c.draft.ids
      BY <3>1, <3>2, <3>3, <1>8 DEF In, Spans
    <3>5. owner'[t] = owner[t]
      BY <1>5, <3>4 DEF Shots
    <3> QED BY <1>1, <1>4, <1>6, <3>1, <3>5, OwnedStays
  <2>2. \A o \in Coming', r \in Sealed' \cup Laid' : Off(o.draft, session'[r])
    <3>1. ASSUME NEW o \in Coming', c.row \in Laid' PROVE Off(o.draft, session[c.row])
      BY <1>12, <1>13, <3>1 DEF Off
    <3> QED BY <1>2, <1>4, <1>6, <1>12, <3>1
  <2>3. ASSUME NEW r \in Laid, NEW t \in Shots, In(t, session[r])
        PROVE  owner'[t] = r \/ FrozenOwned(t)' \/ t \in neglected'
    <3>1. t \notin c.draft.ids
      BY <1>10, <2>3
    <3>2. owner'[t] = owner[t]
      BY <1>5, <3>1 DEF Shots
    <3> QED BY <1>1, <1>2, <1>4, <1>6, <2>3, <3>1, <3>2, OwnedStays
  <2>4. ASSUME c.row \in Laid', NEW t \in Shots, In(t, session[c.row])
        PROVE  owner'[t] = c.row \/ FrozenOwned(t)' \/ t \in neglected'
    <3>1. t \in c.draft.ids
      BY <1>3, <1>13, <2>4 DEF LossInv, FullCalls, In
    <3>2. CASE t \in pass.owned[c.row]
      <4>1. owner'[t] = owner[t]
        BY <1>5, <3>2 DEF Shots
      <4>2. owner[t] = 0 => t \in neglected'
        BY <1>2, <3>1, <4>1
      <4>3. owner[t] # 0 => owner[t] \in SessionRows
        BY <1>1 DEF TypeInv, SessionTypeOK, Shots
      <4>4. owner[t] # 0 /\ t \in pass.owned[owner[t]] => owner[t] = c.row
        BY <1>3, <1>6, <3>2, <4>3
      <4>5. owner[t] = 0 \/ FrozenOwned(t) \/ t \in pass.owned[owner[t]]
        BY <1>3, <1>6, <3>1
      <4> QED BY <1>1, <1>4, <4>1, <4>2, <4>4, <4>5, OwnedStays
    <3>3. CASE t \notin pass.owned[c.row]
      <4>1. owner'[t] = c.row \/ FrozenOwned(t)
        BY <1>5, <3>1, <3>3 DEF F
      <4> QED BY <1>1, <1>4, <4>1, OwnedStays
    <3> QED BY <3>2, <3>3
  <2>5. \A r \in Laid', t \in Shots' : In(t, session'[r]) =>
            owner'[t] = r \/ FrozenOwned(t)' \/ t \in neglected'
    BY <1>2, <1>4, <2>3, <2>4
  <2>6. \A o \in plan' : o.op \notin {"release", "drop"}
    BY <1>2, <1>6
  <2> QED BY <1>2, <1>4, <1>6, <2>1, <2>2, <2>5, <2>6 DEF TailFull, Off, RowOf
<1> QED BY <1>7, <1>11, <1>14 DEF LossInv

\* The draft a row was put for still has its frames to come.
LEMMA PutLoss ==
    ASSUME DisjointInv, LossInv, NEW c \in plan, Put(c)
    PROVE  LossInv'
<1>1. TypeInv /\ TypeInv' /\ Steady
  BY PutType DEF DisjointInv
<1>2. PICK r \in SessionRows :
        /\ r = (IF c.row = 0 THEN NextRow ELSE c.row)
        /\ ~session[r].frozen
        /\ session' = [session EXCEPT ![r] = RowOf(c.draft)]
        /\ plan' = (plan \ {c}) \cup {Call(PutOp, r, c.draft)}
  BY <1>1, PutType
<1>3. /\ c.op = "put" /\ NextCall("put", c)
      /\ UNCHANGED <<instant, shot, owner, checkpoint, pass, neglected, torn>>
  BY DEF Put, NextCall
<1>4. c.draft \in Drafts /\ c \in Calls /\ session \in [SessionRows -> Rows]
      /\ pass.pc \in {"incremental", "backfill"}
  BY <1>1, CallFields DEF TypeInv, SessionTypeOK
<1> DEFINE a == Call(PutOp, r, c.draft)
<1>5. /\ a.op = (IF pass.pc = "incremental" THEN "assign" ELSE "new")
      /\ a.row = r /\ a.draft = c.draft
  BY DEF Call, PutOp
<1>6. plan' = (plan \ {c}) \cup {a}
  BY <1>2
<1> HIDE DEF a
<1>7. /\ session'[r] = RowOf(c.draft)
      /\ \A s \in SessionRows : s # r => session'[s] = session[s]
  BY <1>2, <1>4
<1>8. /\ RowOf(c.draft).live /\ ~RowOf(c.draft).frozen
      /\ RowOf(c.draft).end = IF c.draft.open THEN 0 ELSE c.draft.end
  BY <1>4, RowOfOK
<1>9. FrozenRows' \subseteq FrozenRows /\ Shots' = Shots
  BY <1>3, <1>7, <1>8 DEF FrozenRows, Live, Shots
<1>10. Sealed' = Sealed /\ \A s \in Sealed : session'[s] = session[s]
  BY <1>1, <1>3, <1>9, SealedSame DEF Sealed, FrozenRows, Steady
<1>11. \A o \in plan : o.op \notin First
  BY <1>3, AssignFirst
<1>12. Coming' = (Coming \ {c}) \cup {a} /\ c \in Coming
  BY <1>3, <1>5, <1>6 DEF Coming
<1>13. \A o \in Coming' : \E d \in Coming : o.draft = d.draft
  BY <1>5, <1>12
<1>14. ASSUME NEW s \in Live', session'[s].end # 0
       PROVE  \/ s \in Live /\ session[s].end = session'[s].end
              \/ \E d \in Coming : ~d.draft.open /\ d.draft.end = session'[s].end
  <2>1. CASE s = r
    BY <2>1, <1>7, <1>8, <1>12, <1>14
  <2>2. CASE s # r
    BY <2>2, <1>7 DEF Live
  <2> QED BY <2>1, <2>2
<1>15. ClosedInv' /\ FullCalls'
  <2>1. pass'.whole => pass.whole \/ Coming' = {}
    BY <1>3
  <2>2. \A o \in Coming' : \/ \E d \in Coming : o.draft = d.draft
                           \/ ~pass'.whole /\ Ended(o.draft.end)
    BY <1>13
  <2> QED BY <1>1, <1>3, <1>14, <2>1, <2>2, CallsStay DEF LossInv
<1>16. GapInv'
  BY <1>1, <1>3, GapStays DEF LossInv
<1>17. BehindInv'
  <2>1. \A o \in plan : \E d \in plan' : o.draft = d.draft
    BY <1>5, <1>6
  <2>2. \A o \in plan, t \in Shots' : t \in o.draft.ids => \E d \in plan' : t \in d.draft.ids
    BY <2>1
  <2>3. \A o \in plan : o.op # "undo"
    BY <1>11 DEF First
  <2> QED BY <1>1, <1>3, <2>2, <2>3, BehindStays DEF LossInv
<1>18. FullInv'
  BY <1>1, <1>3, <1>10, FullStays DEF LossInv
<1>19. PlanInv'
  <2> SUFFICES ASSUME pass.pc = "backfill", NEW o \in plan'
               PROVE  /\ ~o.draft.open /\ o.draft.end + Lookback < pass.now
                      /\ o.op # "put" => session'[o.row].end = o.draft.end
                      /\ o.op = "extend" => session'[o.row].frozen
                      /\ o.op \in First => o.op = "new"
    BY <1>3 DEF PlanInv, First
  <2>1. \A d \in plan : /\ ~d.draft.open /\ d.draft.end + Lookback < pass.now
                        /\ d.op # "put" => session[d.row].end = d.draft.end
                        /\ d.op = "extend" => session[d.row].frozen
    BY DEF LossInv, PlanInv
  <2>2. CASE o = a
    BY <2>1, <2>2, <1>5, <1>7, <1>8
  <2>3. CASE o # a
    <3>1. o \in plan /\ CallOK(o) /\ CallOK(c) /\ o.op \in {"put", "own", "extend"}
      BY <2>3, <1>1, <1>6, <1>11 DEF TypeInv, CallsInv, CallOK
    <3>2. o.op # "put" => o.row \in Live
      BY <3>1 DEF CallOK
    <3>3. r \notin Live
      <4>1. c.row = 0 /\ r = NextRow
        BY <1>2, <1>3, <3>1 DEF CallOK
      <4> QED BY <1>1, <4>1, NextRowOK
    <3>4. o.op # "put" => session'[o.row] = session[o.row]
      BY <1>7, <3>2, <3>3 DEF Live
    <3>5. o.op \notin First
      BY <1>11, <3>1
    <3> QED BY <2>1, <3>1, <3>4, <3>5
  <2> QED BY <2>2, <2>3
<1>20. TailFull'
  <2> SUFFICES ASSUME pass.pc \in {"incremental", "freeze"}, pass.whole PROVE TailFull'
    BY <1>3 DEF TailFull
  <2>1. /\ \A r1, s \in SessionRows : r1 # s => pass.owned[r1] \cap pass.owned[s] = {}
        /\ \A o, d \in Coming : o # d => Off(o.draft, d.draft)
        /\ \A o \in Coming, t \in Shots : t \in o.draft.ids =>
              owner[t] = 0 \/ FrozenOwned(t) \/ t \in pass.owned[owner[t]]
        /\ \A o \in Coming, s \in Sealed \cup Laid : Off(o.draft, session[s])
        /\ \A s \in Laid, t \in Shots : In(t, session[s]) =>
              owner[t] = s \/ FrozenOwned(t) \/ t \in neglected
    BY DEF LossInv, TailFull
  <2>2. \A o \in plan' : o.op \notin {"release", "drop"}
    <3>1. ASSUME NEW o \in plan, o.op \in {"release", "drop"} PROVE FALSE
      <4>1. Turn[o.op] < Turn[c.op]
        BY <1>3, <3>1 DEF Turn
      <4> QED BY <1>3, <4>1 DEF NextCall, Before
    <3>2. a.op \in {"assign", "new"}
      BY <1>5
    <3> QED BY <1>6, <3>1, <3>2
  <2>3. ASSUME NEW s \in Laid' PROVE s \in Laid /\ session'[s] = session[s]
    <3>1. /\ s \in SessionRows /\ s \in Unfrozen' /\ session'[s].end # 0
          /\ \A o \in plan' : o.op \in {"put", "drop", "assign"} => o.row # s
      BY DEF Laid, Unfrozen, Live
    <3>2. s # r
      BY <1>4, <1>5, <1>6, <3>1
    <3>3. session'[s] = session[s] /\ s # c.row
      BY <1>2, <1>7, <3>1, <3>2, SessionFacts DEF SessionRows
    <3> QED BY <1>6, <3>1, <3>3 DEF Laid, Unfrozen, Live
  <2>4. \A o \in Coming' : o.op = "assign" => session'[o.row] = RowOf(o.draft)
    BY <1>5, <1>7, <1>11, <1>12 DEF Coming, First
  <2>5. \A o, d \in Coming' : o # d => Off(o.draft, d.draft)
    BY <2>1, <1>5, <1>12 DEF Off
  <2>6. \A o \in Coming', s \in Sealed' \cup Laid' : Off(o.draft, session'[s])
    BY <1>10, <1>13, <2>1, <2>3
  <2>7. \A t \in Shots : FrozenOwned(t) => FrozenOwned(t)'
    BY <1>1, <1>9, OwnedStays
  <2>8. \A o \in Coming', t \in Shots' : t \in o.draft.ids =>
            owner'[t] = 0 \/ FrozenOwned(t)' \/ t \in pass'.owned[owner'[t]]
    BY <1>3, <1>9, <1>13, <2>1, <2>7
  <2>9. \A s \in Laid', t \in Shots' : In(t, session'[s]) =>
            owner'[t] = s \/ FrozenOwned(t)' \/ t \in neglected'
    BY <1>3, <1>9, <2>1, <2>3, <2>7
  <2> QED BY <1>3, <2>1, <2>2, <2>4, <2>5, <2>6, <2>8, <2>9 DEF TailFull, Off, RowOf
<1> QED BY <1>15, <1>16, <1>17, <1>18, <1>19, <1>20 DEF LossInv

\* (a draft of the incremental part has all the frames of its span)
LEMMA TailDraftFull ==
    ASSUME TypeInv, NEW e \in IncrementalDrafts(instant)
    PROVE  /\ e.end \in Nat /\ e.end <= instant
           /\ \A t \in Shots : In(t, e) => t \in e.ids
           /\ ~e.open => e.end + MergeGap <= instant
<1>1a. PICK d \in Segment(SeenShots, instant) : TailParts(e, d)
  BY TailDraftParts
<1>1. /\ e.ids \in SUBSET d.ids /\ d.ids \in SUBSET SeenShots
      /\ Spans(e) /\ DraftOK(SeenShots, d)
      /\ \A q \in MetRows, u \in e.ids : Overlaps(d, q) => u > session[q].end
      /\ \A u \in d.ids : u \in e.ids
                          \/ \E q \in MetRows : Overlaps(d, q) /\ ~(u > session[q].end)
      /\ e.open = (d.end = Max(SeenShots) /\ instant < d.end + MergeGap)
      /\ d.ids \subseteq Nat /\ {e.start, e.end, d.start, d.end} \subseteq Nat
  BY <1>1a DEF TailParts
<1>2. instant \in Nat /\ TailFrom \in Nat /\ SeenShots \in SUBSET Instants /\ SeenShots \in SUBSET (0..LastInstant)
  BY TailFromOK, InstantsNat DEF TypeInv, SessionTypeOK, SeenShots, Shots
<1>3. /\ e.start \in e.ids /\ e.start \in d.ids /\ e.end \in d.ids /\ d.end \in d.ids
      /\ \A t \in d.ids : d.start <= t /\ t <= d.end /\ TailFrom <= t /\ t <= instant
  BY <1>1 DEF Spans, DraftOK, SeenShots
<1>4. ASSUME NEW t \in Shots, In(t, e) PROVE t \in e.ids
  <2>1. t \in Nat /\ e.start <= t /\ t <= e.end
    BY <1>4, InstantsNat DEF In, Shots
  <2>2. t \in SeenShots /\ In(t, d)
    BY <1>1, <1>2, <1>3, <2>1 DEF SeenShots, In
  <2>3. t \in d.ids
    BY <1>2, <2>2, SegmentFull
  <2>4. ASSUME NEW q \in MetRows, Overlaps(d, q) PROVE t > session[q].end
    <3>1. e.start > session[q].end
      BY <1>1, <1>3, <2>4
    <3>2. session[q].end \in Nat
      BY SealedRow DEF MetRows, FrozenRows
    <3> QED BY <1>1, <2>1, <3>1, <3>2
  <2> QED BY <1>1, <2>3, <2>4
<1>5. ASSUME ~e.open PROVE e.end + MergeGap <= instant
  <2>1. CASE d.end + MergeGap <= instant
    BY <1>1, <1>2, <1>3, <2>1, SessionFacts
  <2>2. CASE d.end # Max(SeenShots)
    <3>1. Max(SeenShots) \in SeenShots /\ \A k \in SeenShots : k <= Max(SeenShots)
      BY <1>1, <1>2, <1>3, SessionFacts, MaxOf
    <3>2. Max(SeenShots) \in Nat /\ Max(SeenShots) <= instant /\ d.end < Max(SeenShots)
      <4>1. Max(SeenShots) \in Nat /\ Max(SeenShots) <= instant
        BY <1>2, <3>1, InstantsNat DEF SeenShots
      <4> QED BY <4>1, <1>1, <1>3, <2>2, <3>1
    <3>3. d.end + MergeGap <= Max(SeenShots)
      <4>1. Max(SeenShots) < d.end + MergeGap => Max(SeenShots) \in d.ids
        BY <1>1, <1>3, <3>1, <3>2 DEF DraftOK
      <4> QED BY <4>1, <1>1, <1>3, <3>2, SessionFacts
    <3> QED BY <1>1, <1>2, <1>3, <3>2, <3>3, SessionFacts
  <2>3. d.end # Max(SeenShots) \/ ~(instant < d.end + MergeGap)
    BY <1>1, <1>5
  <2>4. ~(instant < d.end + MergeGap) => d.end + MergeGap <= instant
    BY <1>1, <1>2, SessionFacts
  <2> QED BY <2>1, <2>2, <2>3, <2>4
<1> QED BY <1>1, <1>3, <1>4, <1>5

\* beginning a pass,
LEMMA PassBeginsLoss ==
    ASSUME DisjointInv, LossInv, PassBegins
    PROVE  LossInv'
<1>1. TypeInv /\ SealedInv /\ TypeInv' /\ Steady
  BY PassBeginsType DEF DisjointInv
<1>2. /\ pass'.pc = "incremental"
      /\ UNCHANGED <<instant, shot, owner, session, checkpoint, neglected, torn, upsets>>
      /\ \A c \in plan' : c.op \in {"release", "drop", "put"}
                          /\ (c.op # "drop" => c.draft \in IncrementalDrafts(instant))
      /\ \A r \in Unfrozen : \E c \in plan' : c.op \in {"put", "drop"} /\ c.row = r
      /\ \A c, o \in plan' : c.op = "put" /\ o.op = "put" /\ c # o => c.draft # o.draft
  BY <1>1, PassBeginsIs
<1>3. /\ Sealed' = Sealed /\ FrozenRows' = FrozenRows /\ Unfrozen' = Unfrozen
      /\ Shots' = Shots /\ Live' = Live
  BY <1>2 DEF Sealed, FrozenRows, Unfrozen, Live, Shots
<1>4. \A c \in Coming' : c \in plan' /\ c.op = "put" /\ c.draft \in IncrementalDrafts(instant)
  BY <1>2 DEF Coming
<1>5. GapInv' /\ BehindInv'
  BY <1>1, <1>2, GapStays, BehindStays DEF LossInv
<1>6. PlanInv'
  BY <1>2 DEF PlanInv
<1>7. FullInv'
  BY <1>1, <1>2, <1>3, FullStays DEF LossInv
<1>8. FullCalls'
  <2>1. ASSUME NEW c \in Coming'
        PROVE  c.draft.end <= instant /\ \A t \in Shots : In(t, c.draft) => t \in c.draft.ids
    BY <1>1, <1>4, TailDraftFull
  <2> QED BY <1>2, <1>3, <2>1 DEF FullCalls, In
<1>9. ClosedInv'
  <2>1. ASSUME NEW c \in Coming', ~c.draft.open PROVE Ended(c.draft.end)
    <3>1. After(c.draft.end) = {} /\ c.draft.end + MergeGap <= instant
      BY <1>1, <1>4, <2>1, TailDraftFull, TailDraftEnds
    <3> QED BY <3>1 DEF Ended, Covered
  <2>2. \A r \in Live : session[r].end # 0 => Ended(session[r].end)
    BY DEF LossInv, ClosedInv
  <2> QED BY <1>2, <1>3, <2>1, <2>2 DEF ClosedInv, Ended, Covered, After
<1>10. pass'.owned = [r \in SessionRows |-> IF r \in Unfrozen THEN OwnedBy(r) ELSE {}]
  <2> DEFINE owned == [r \in SessionRows |-> IF r \in Unfrozen THEN OwnedBy(r) ELSE {}]
  <2>1. pass' = [NoPass EXCEPT !.pc = "incremental", !.now = instant, !.owned = owned]
    BY DEF PassBegins
  <2> HIDE DEF owned
  <2>2. pass'.owned = owned
    BY <2>1 DEF NoPass
  <2> QED BY <2>2 DEF owned
<1>11. TailFull'
  <2>1. Laid' = {}
    <3> SUFFICES ASSUME NEW r \in Laid' PROVE FALSE
      OBVIOUS
    <3>1. r \in Unfrozen /\ \A c \in plan' : c.op \in {"put", "drop", "assign"} => c.row # r
      BY <1>3 DEF Laid
    <3> QED BY <1>2, <3>1
  <2>2. \A r, s \in SessionRows : r # s => pass'.owned[r] \cap pass'.owned[s] = {}
    <3>1. \A r \in SessionRows : \A t \in pass'.owned[r] : owner[t] = r
      BY <1>10 DEF OwnedBy
    <3> QED BY <3>1
  <2>3. \A c, d \in Coming' : c # d => Off(c.draft, d.draft)
    BY <1>1, <1>2, <1>4, TailDraftsApart
  <2>4. \A c \in Coming', r \in Sealed : Off(c.draft, session[r])
    BY <1>1, <1>4, TailDraftClear
  <2>5. \A t \in Shots : owner[t] = 0 \/ FrozenOwned(t) \/ t \in pass'.owned[owner[t]]
    <3> SUFFICES ASSUME NEW t \in Shots, owner[t] # 0, ~FrozenOwned(t)
                 PROVE  t \in pass'.owned[owner[t]]
      OBVIOUS
    <3>1. owner[t] \in Live /\ owner[t] \in SessionRows
      BY <1>1 DEF TypeInv, SessionTypeOK, Shots, Live
    <3>2. owner[t] \in Unfrozen /\ t \in OwnedBy(owner[t])
      BY <3>1 DEF Unfrozen, FrozenOwned, OwnedBy
    <3> QED BY <1>10, <3>1, <3>2
  <2>6. \A t \in Shots : FrozenOwned(t) => FrozenOwned(t)'
    BY <1>2 DEF FrozenOwned
  <2>7. \A c \in Coming', t \in Shots' : t \in c.draft.ids =>
            owner'[t] = 0 \/ FrozenOwned(t)' \/ t \in pass'.owned[owner'[t]]
    BY <1>2, <1>3, <2>5, <2>6
  <2>8. /\ \A c \in plan' : c.op # "assign"
        /\ \A c \in Coming' : c.op # "assign"
    BY <1>2, <1>4
  <2>9. \A c \in Coming', r \in Sealed' \cup Laid' : Off(c.draft, session'[r])
    BY <1>2, <1>3, <2>1, <2>4
  <2> QED BY <2>1, <2>2, <2>3, <2>7, <2>8, <2>9 DEF TailFull, Off
<1> QED BY <1>5, <1>6, <1>7, <1>8, <1>9, <1>11 DEF LossInv

-----------------------------------------------------------------------------
(* The steps that make no call. *)

\* A step that changes no row and adds no call.
LEMMA QuietLoss ==
    ASSUME DisjointInv, TypeInv', Steady, LossInv, UNCHANGED <<session, torn, checkpoint>>,
           neglected \subseteq neglected', instant' \in {instant, instant + 1}, plan' \subseteq plan,
           pass'.whole => pass.whole \/ plan' = {},
           pass'.pc = "backfill" => /\ pass' = pass /\ plan' = plan /\ Shots' \subseteq Shots
                                    /\ \A t \in Shots' : owner'[t] = owner[t]
    PROVE  GapInv' /\ ClosedInv' /\ FullCalls' /\ PlanInv' /\ FullInv' /\ BehindInv'
<1>1. TypeInv /\ Live' = Live /\ Sealed' = Sealed /\ Coming' \subseteq Coming
  BY DEF DisjointInv, Live, Sealed, FrozenRows, Coming
<1>2. GapInv'
  BY <1>1, GapStays DEF LossInv
<1>3. ClosedInv' /\ FullCalls'
  <2>1. \A r \in Live' : r \in Live /\ session[r].end = session'[r].end
    BY <1>1
  <2>2. pass'.whole => pass.whole \/ Coming' = {}
    BY DEF Coming
  <2>3. \A o \in Coming' : \/ \E d \in Coming : o.draft = d.draft
                           \/ ~pass'.whole /\ Ended(o.draft.end)
    BY <1>1
  <2> QED BY <1>1, <2>1, <2>2, <2>3, CallsStay DEF LossInv
<1>4. PlanInv'
  <2> SUFFICES ASSUME pass'.pc = "backfill" PROVE PlanInv'
    BY DEF PlanInv
  <2>1. \A t \in Shots' : FrozenOwned(t) => FrozenOwned(t)'
    BY <1>1, OwnedStays
  <2> QED BY <2>1 DEF LossInv, PlanInv
<1>5. FullInv'
  BY <1>1, FullStays DEF LossInv
<1>6. BehindInv'
  BY <1>1, BehindStays DEF LossInv
<1> QED BY <1>2, <1>3, <1>4, <1>5, <1>6

\* (as long as rows, frames and calls stay, so does what the rows own)
LEMMA SameTail ==
    ASSUME TypeInv, TypeInv', Steady, LossInv, UNCHANGED <<session, torn, plan, neglected>>,
           pass'.pc \in {"incremental", "freeze"} => pass.pc \in {"incremental", "freeze"},
           pass'.owned = pass.owned, pass'.whole = pass.whole,
           Shots' \subseteq Shots, \A t \in Shots' : owner'[t] = owner[t]
    PROVE  TailFull'
<1>1. Coming' = Coming /\ Sealed' = Sealed /\ Laid' = Laid
  BY DEF Coming, Sealed, FrozenRows, Live, Laid, Unfrozen
<1>2. \A t \in Shots' : t \in Shots /\ (FrozenOwned(t) => FrozenOwned(t)')
  BY OwnedStays
<1>3. SUFFICES ASSUME pass.pc \in {"incremental", "freeze"}, pass.whole PROVE TailFull'
  BY DEF TailFull
<1>4. /\ \A c \in plan : c.op \in {"release", "drop"} => Laid = {} /\ \A o \in plan : o.op # "assign"
      /\ \A r, s \in SessionRows : r # s => pass.owned[r] \cap pass.owned[s] = {}
      /\ \A c, d \in Coming : c # d => Off(c.draft, d.draft)
      /\ \A c \in Coming : c.op = "assign" => session[c.row] = RowOf(c.draft)
      /\ \A c \in Coming, t \in Shots : t \in c.draft.ids =>
            owner[t] = 0 \/ FrozenOwned(t) \/ t \in pass.owned[owner[t]]
      /\ \A c \in Coming, r \in Sealed \cup Laid : Off(c.draft, session[r])
      /\ \A r \in Laid, t \in Shots : In(t, session[r]) =>
            owner[t] = r \/ FrozenOwned(t) \/ t \in neglected
  BY <1>3 DEF LossInv, TailFull
<1> QED BY <1>1, <1>2, <1>4 DEF TailFull, Off, RowOf, In

\* ending its incremental part,
LEMMA PassFreezesLoss ==
    ASSUME DisjointInv, LossInv, PassFreezes
    PROVE  LossInv'
<1>1. TypeInv /\ TypeInv' /\ Steady
  BY PassFreezesType DEF DisjointInv
<1>2. /\ pass.pc = "incremental" /\ pass' = [pass EXCEPT !.pc = "freeze"]
      /\ UNCHANGED <<instant, shot, owner, session, checkpoint, plan, neglected, torn>>
  BY DEF PassFreezes
<1>3. pass'.pc = "freeze" /\ pass'.whole = pass.whole /\ pass'.owned = pass.owned
  BY <1>1, <1>2 DEF TypeInv, SessionTypeOK, Passes
<1>4. TailFull'
  BY <1>1, <1>2, <1>3, SameTail DEF Shots
<1> QED BY <1>1, <1>2, <1>3, <1>4, QuietLoss DEF LossInv

\* failing, dying, capturing and deleting,
LEMMA QuietStepLoss ==
    ASSUME DisjointInv, LossInv,
           CallFails \/ ProcessDies \/ Tick \/ (\E t \in Instants : DeleteFrame(t))
           \/ UNCHANGED sessionVars
    PROVE  LossInv'
<1>1. TypeInv /\ TypeInv' /\ Steady
  BY CallFailsType, ProcessDiesType, TickType, DeleteFrameType, StutterType DEF DisjointInv
<1>2. CASE CallFails \/ ProcessDies
  <2>1. /\ plan' = {} /\ neglected \subseteq neglected' /\ instant' = instant
        /\ UNCHANGED <<session, torn, checkpoint>>
    BY <1>2 DEF CallFails, ProcessDies
  <2>2. pass'.pc # "backfill" /\ (pass'.pc \in {"incremental", "freeze"} => ~pass'.whole)
    <3>1. CASE pass' = NoPass
      BY <3>1, NoPassIs
    <3>2. CASE pass' = [pass EXCEPT !.whole = FALSE] /\ pass.pc = "incremental"
      BY <3>2, <1>1 DEF TypeInv, SessionTypeOK, Passes
    <3> QED BY <1>2, <3>1, <3>2 DEF CallFails, ProcessDies
  <2> QED BY <1>1, <2>1, <2>2, QuietLoss DEF LossInv, TailFull
<1>3. CASE Tick
  <2>1. pass.pc = "asleep" /\ pass' = pass /\ instant' = instant + 1
        /\ UNCHANGED <<session, checkpoint, plan, neglected, torn>>
    BY <1>3 DEF Tick
  <2> QED BY <1>1, <2>1, QuietLoss DEF LossInv, TailFull
<1>4. CASE (\E t \in Instants : DeleteFrame(t)) \/ UNCHANGED sessionVars
  <2>1. /\ UNCHANGED <<instant, session, checkpoint, pass, plan, neglected, torn>>
        /\ Shots' \subseteq Shots /\ \A t \in Shots' : owner'[t] = owner[t]
    <3>1. CASE UNCHANGED sessionVars
      BY <3>1 DEF sessionVars, Shots
    <3>2. ASSUME NEW u \in Instants, DeleteFrame(u)
          PROVE  /\ UNCHANGED <<instant, session, checkpoint, pass, plan, neglected, torn>>
                 /\ Shots' \subseteq Shots /\ \A t \in Shots' : owner'[t] = owner[t]
      <4>1. /\ shot' = [shot EXCEPT ![u] = NoApp] /\ owner' = [owner EXCEPT ![u] = 0]
            /\ UNCHANGED <<instant, session, checkpoint, pass, plan, neglected, torn>>
        BY <3>2 DEF DeleteFrame
      <4>2. shot \in [Instants -> Apps \cup {NoApp}] /\ owner \in [Instants -> {0} \cup SessionRows]
        BY <1>1 DEF TypeInv, SessionTypeOK
      <4> QED BY <4>1, <4>2 DEF Shots
    <3> QED BY <1>4, <3>1, <3>2
  <2>2. TailFull'
    BY <1>1, <2>1, SameTail
  <2> QED BY <1>1, <2>1, <2>2, QuietLoss DEF LossInv
<1> QED BY <1>2, <1>3, <1>4

\* saving the cursor: what the chunk passed is accounted for,
LEMMA SaveCheckpointLoss ==
    ASSUME DisjointInv, LossInv, SaveCheckpoint
    PROVE  LossInv'
<1>1. TypeInv /\ TypeInv' /\ Steady
  BY SaveCheckpointType DEF DisjointInv
<1>2. /\ pass.pc = "backfill" /\ plan = {} /\ plan' = {} /\ pass' = NoPass
      /\ checkpoint' = [checkpoint EXCEPT !.cursor = pass.cut]
      /\ UNCHANGED <<instant, shot, owner, session, neglected, torn>>
  BY DEF SaveCheckpoint
<1>3. checkpoint'.cursor = pass.cut /\ pass'.pc = "asleep"
  BY <1>1, <1>2, NoPassIs DEF TypeInv, SessionTypeOK
<1>4. Shots' = Shots /\ Live' = Live /\ FrozenRows' = FrozenRows /\ Sealed' = Sealed /\ Coming' = {}
  BY <1>2 DEF Shots, Live, FrozenRows, Sealed, Coming
<1>5. GapInv'
  BY <1>2, <1>3, <1>4 DEF LossInv, GapInv, Gap
<1>6. ClosedInv' /\ FullCalls'
  <2>1. \A r \in Live' : r \in Live /\ session[r].end = session'[r].end
    BY <1>2, <1>4
  <2> QED BY <1>1, <1>2, <1>4, <2>1, CallsStay DEF LossInv
<1>7. PlanInv' /\ TailFull'
  BY <1>3 DEF PlanInv, TailFull
<1>8. FullInv'
  BY <1>1, <1>2, <1>4, FullStays DEF LossInv
<1>9. BehindInv'
  <2> SUFFICES ASSUME NEW t \in Shots, t < pass.cut PROVE Settles(t)'
    BY <1>3, <1>4 DEF BehindInv
  <2>1. Settles(t)
    BY <1>2 DEF LossInv, BehindInv
  <2> QED BY <1>2, <1>4, <2>1 DEF Settles, FrozenOwned, Short, TrackOf, Linked, In
<1> QED BY <1>5, <1>6, <1>7, <1>8, <1>9 DEF LossInv

-----------------------------------------------------------------------------
(* Freezing, and the calls of a chunk. *)

\* The rows a whole pass freezes have the frames of their spans.
LEMMA FreezeLoss ==
    ASSUME DisjointInv, LossInv, NEW throttled \in BOOLEAN, Freeze(throttled)
    PROVE  LossInv'
<1>1. TypeInv /\ TypeInv' /\ Steady
  BY FreezeType DEF DisjointInv
<1>2. PICK ok \in BOOLEAN :
        /\ \/ ok /\ Freezes /\ UNCHANGED upsets
           \/ ~ok /\ Upset /\ UNCHANGED <<session, torn>>
        /\ pass' = IF throttled THEN NoPass
                   ELSE [pass EXCEPT !.pc = "open", !.whole = @ /\ ok]
  BY DEF Freeze
<1>3. /\ pass.pc = "freeze" /\ UNCHANGED <<instant, shot, owner, checkpoint, plan, neglected>>
  BY DEF Freeze
<1>4. plan = {} /\ plan' = {} /\ pass.now = instant /\ Shots' = Shots /\ Coming' = {}
  BY <1>1, <1>3 DEF TypeInv, SessionTypeOK, ClockInv, Shots, Coming
<1>5. pass'.pc \in {"asleep", "open"}
  <2>1. CASE throttled
    BY <1>2, <2>1, NoPassIs
  <2>2. CASE ~throttled
    <3> DEFINE w == pass.whole /\ ok
    <3>1. w \in BOOLEAN /\ pass \in Passes
      BY <1>1 DEF TypeInv, SessionTypeOK, Passes
    <3>2. pass' = [pass EXCEPT !.pc = "open", !.whole = w]
      BY <1>2, <2>2, <3>1 DEF Passes
    <3> HIDE DEF w
    <3> QED BY <3>1, <3>2 DEF Passes
  <2> QED BY <2>1, <2>2
<1>6. ASSUME NEW r \in Live', session'[r].end # 0
      PROVE  r \in Live /\ session[r].end = session'[r].end
  <2>1. CASE ok
    <3>1. Live' = Live /\ \A s \in SessionRows : session'[s].end = session[s].end
      BY <1>1, <1>2, <1>4, <2>1, FreezesSeals
    <3> QED BY <3>1 DEF Live
  <2>2. CASE ~ok
    BY <1>2, <2>2 DEF Live
  <2> QED BY <2>1, <2>2
<1>7. GapInv'
  BY <1>1, <1>3, <1>5, GapStays DEF LossInv
<1>8. ClosedInv' /\ FullCalls'
  BY <1>1, <1>3, <1>4, <1>6, CallsStay DEF LossInv
<1>9. BehindInv'
  BY <1>1, <1>3, <1>5, BehindStays DEF LossInv
<1>10. PlanInv' /\ TailFull'
  BY <1>5 DEF PlanInv, TailFull
<1>11. FullInv'
  <2>1. CASE ~ok \/ ~pass.whole
    <3>1. Sealed' \subseteq Sealed
      <4>1. CASE ~ok
        BY <1>2, <4>1 DEF Sealed, FrozenRows, Live
      <4>2. CASE ok /\ ~pass.whole
        BY <1>1, <1>2, <1>4, <4>2, FreezesSeals
      <4> QED BY <2>1, <4>1, <4>2
    <3> QED BY <1>1, <1>3, <3>1, FullStays DEF LossInv
  <2>2. CASE ok /\ pass.whole
    <3>1. /\ \A r \in SessionRows : /\ session'[r].start = session[r].start
                                    /\ session'[r].end = session[r].end
          /\ Live' = Live /\ torn' = torn
          /\ \A r \in FrozenRows' : r \in FrozenRows \/ (r \in Unfrozen /\ Due(r))
      BY <1>1, <1>2, <1>4, <2>2, FreezesSeals
    <3>2. \A r \in Laid, t \in Shots : In(t, session[r]) =>
              owner[t] = r \/ FrozenOwned(t) \/ t \in neglected
      BY <1>3, <2>2 DEF LossInv, TailFull
    <3> SUFFICES ASSUME NEW r \in Sealed', NEW t \in Shots, In(t, session'[r])
                 PROVE  FrozenOwned(t)' \/ t \in neglected
      BY <1>3, <1>4 DEF FullInv
    <3>3. r \in FrozenRows' /\ r \notin torn /\ r \in SessionRows /\ session'[r].frozen
      BY <3>1 DEF Sealed, FrozenRows, Live
    <3>4. In(t, session[r])
      BY <3>1, <3>3 DEF In
    <3>5. CASE r \in FrozenRows
      <4>1. FrozenOwned(t) \/ t \in neglected
        BY <3>3, <3>4, <3>5 DEF LossInv, FullInv, Sealed
      <4> QED BY <1>1, <1>4, <4>1, OwnedStays
    <3>6. CASE r \in Unfrozen /\ Due(r)
      <4>1. r \in Laid
        BY <1>4, <3>6 DEF Laid, Due
      <4>2. owner[t] = r \/ FrozenOwned(t) \/ t \in neglected
        BY <3>2, <3>4, <4>1
      <4>3. owner[t] = r => FrozenOwned(t)'
        BY <1>3, <3>3, SessionFacts DEF FrozenOwned, SessionRows
      <4> QED BY <1>1, <1>4, <4>2, <4>3, OwnedStays
    <3> QED BY <3>1, <3>3, <3>5, <3>6
  <2> QED BY <2>1, <2>2
<1> QED BY <1>7, <1>8, <1>9, <1>10, <1>11 DEF LossInv

\* What the call of a draft may do, and nothing of a chunk is lost: it leaves the
\* other calls alone or gives them all up with the chunk; the one that comes in its
\* place goes on with its row.
LEMMA ChunkStepLoss ==
    ASSUME DisjointInv, TypeInv', Steady, LossInv, pass.pc = "backfill", pass'.pc = "backfill",
           pass'.cut = pass.cut, pass'.now = pass.now, pass'.whole = pass.whole,
           UNCHANGED <<instant, shot, checkpoint>>, Live' = Live,
           \A r \in SessionRows : session'[r].end = session[r].end,
           NEW c \in plan, c.op \notin {"put", "undo"}, \A o \in plan : o.op \in First => o = c,
           NEW op \in First, plan' \subseteq (plan \ {c}) \cup {Call(op, c.row, c.draft)},
           Call(op, c.row, c.draft) \in plan' =>
               /\ op = "add" => session'[c.row].frozen
               /\ op \in {"assign", "add"} => \A t \in pass'.owned[c.row] \cap Shots : owner'[t] = c.row
               /\ op \in {"freeze", "confirm"} => \A t \in c.draft.ids \cap Shots :
                                                     owner'[t] = c.row \/ FrozenOwned(t)'
               /\ op \in {"new", "assign", "freeze"} =>
                     c.op \in {"new", "assign", "freeze"} \/ (~pass.whole /\ Ended(c.draft.end)),
           \/ Call(op, c.row, c.draft) \in plan' /\ (op = "undo" \/ plan \ {c} \subseteq plan')
           \/ /\ plan \ {c} \subseteq plan'
              /\ \A t \in c.draft.ids \cap Shots : FrozenOwned(t)'
    PROVE  GapInv' /\ ClosedInv' /\ FullCalls' /\ PlanInv' /\ TailFull' /\ BehindInv'
<1> DEFINE a == Call(op, c.row, c.draft)
<1>1. a.op = op /\ a.row = c.row /\ a.draft = c.draft
  BY DEF Call
<1>2. /\ plan' \subseteq (plan \ {c}) \cup {a}
      /\ a \in plan' =>
            /\ op = "add" => session'[c.row].frozen
            /\ op \in {"assign", "add"} => \A t \in pass'.owned[c.row] \cap Shots : owner'[t] = c.row
            /\ op \in {"freeze", "confirm"} => \A t \in c.draft.ids \cap Shots :
                                                  owner'[t] = c.row \/ FrozenOwned(t)'
            /\ op \in {"new", "assign", "freeze"} =>
                  c.op \in {"new", "assign", "freeze"} \/ (~pass.whole /\ Ended(c.draft.end))
      /\ \/ a \in plan' /\ (op = "undo" \/ plan \ {c} \subseteq plan')
         \/ /\ plan \ {c} \subseteq plan'
            /\ \A t \in c.draft.ids \cap Shots : FrozenOwned(t)'
  OBVIOUS
<1> HIDE DEF a
<1>3. TypeInv /\ Shots' = Shots /\ CallOK(c) /\ c.row \in Live /\ c.row \in SessionRows
  BY DEF DisjointInv, Shots, TypeInv, CallsInv, CallOK, Live
<1>4. ASSUME NEW o \in plan', o # a
      PROVE  o \in plan /\ o.op \notin First /\ CallOK(o)
             /\ (o.op # "put" => o.row \in Live /\ o.row \in SessionRows)
  <2>1. o \in plan /\ o # c
    BY <1>2, <1>4
  <2> QED BY <1>3, <2>1 DEF TypeInv, CallsInv, CallOK, Live
<1>5. \A o \in plan : /\ ~o.draft.open /\ o.draft.end + Lookback < pass.now
                      /\ o.op # "put" => session[o.row].end = o.draft.end
                      /\ o.op \in {"extend", "add"} => session[o.row].frozen
  BY DEF LossInv, PlanInv
<1>6. GapInv'
  BY <1>3, GapStays DEF LossInv
<1>7. ClosedInv' /\ FullCalls'
  <2>1. \A r \in Live' : r \in Live /\ session[r].end = session'[r].end
    BY DEF Live
  <2>2. ASSUME NEW o \in Coming'
        PROVE  \/ \E d \in Coming : o.draft = d.draft
               \/ ~pass'.whole /\ Ended(o.draft.end)
    <3>1. CASE o = a
      <4>1. c \in Coming \/ (~pass.whole /\ Ended(c.draft.end))
        BY <1>1, <1>2, <2>2, <3>1 DEF Coming, First
      <4>2. CASE c \in Coming
        BY <1>1, <3>1, <4>2
      <4>3. CASE ~pass.whole /\ Ended(c.draft.end)
        <5>1. o.draft.end = c.draft.end
          BY <1>1, <3>1
        <5> QED BY <4>3, <5>1
      <4> QED BY <4>1, <4>2, <4>3
    <3>2. CASE o # a
      BY <1>4, <2>2, <3>2 DEF Coming
    <3> QED BY <3>1, <3>2
  <2> QED BY <1>3, <2>1, <2>2, CallsStay DEF LossInv
<1>8. PlanInv'
  <2> SUFFICES ASSUME NEW o \in plan'
               PROVE  /\ ~o.draft.open /\ o.draft.end + Lookback < pass.now
                      /\ o.op # "put" => session'[o.row].end = o.draft.end
                      /\ o.op \in {"extend", "add"} => session'[o.row].frozen
                      /\ o.op \in {"assign", "add"} =>
                            \A t \in pass'.owned[o.row] \cap Shots' : owner'[t] = o.row
                      /\ o.op \in {"freeze", "confirm"} =>
                            \A t \in o.draft.ids \cap Shots' : owner'[t] = o.row \/ FrozenOwned(t)'
    BY DEF PlanInv
  <2>1. CASE o = a
    <3>1. /\ ~c.draft.open /\ c.draft.end + Lookback < pass.now
          /\ session'[c.row].end = c.draft.end /\ op # "extend"
      BY <1>3, <1>5 DEF First
    <3> QED BY <1>1, <1>2, <1>3, <2>1, <3>1
  <2>2. CASE o # a
    <3>1. o \in plan /\ o.op \notin First /\ (o.op # "put" => o.row \in Live /\ o.row \in SessionRows)
      BY <1>4, <2>2
    <3>2. o.op = "extend" => session'[o.row].frozen
      <4>1. o.op = "extend" => o.row \in FrozenRows
        BY <1>5, <3>1 DEF FrozenRows
      <4> QED BY <1>5, <3>1, <4>1 DEF Steady
    <3> QED BY <1>5, <3>1, <3>2 DEF First
  <2> QED BY <2>1, <2>2
<1>9. TailFull'
  BY DEF TailFull
<1>10. BehindInv'
  <2>1. \A o \in plan : o.op # "undo"
    BY DEF First
  <2>2. ASSUME NEW o \in plan, NEW t \in Shots', t \in o.draft.ids
        PROVE  FrozenOwned(t)' \/ \E q \in plan' : t \in q.draft.ids \/ q.op = "undo"
    BY <1>1, <1>2, <1>3, <2>2
  <2> QED BY <1>3, <2>1, <2>2, BehindStays DEF LossInv
<1> QED BY <1>6, <1>7, <1>8, <1>9, <1>10

\* session_frames_meta: the call goes on with what its row has,
LEMMA MetaLoss ==
    ASSUME DisjointInv, LossInv, NEW c \in plan, Meta(c)
    PROVE  LossInv'
<1> DEFINE op == IF c.op = "extend" THEN "add" ELSE "assign"
<1>1. TypeInv /\ ChunkInv /\ TypeInv' /\ Steady
  BY MetaType DEF DisjointInv
<1>2. /\ c.op \in {"own", "extend", "new"} /\ NextCall(c.op, c)
      /\ pass' = [pass EXCEPT !.owned[c.row] = OwnedBy(c.row)]
      /\ plan' = (plan \ {c}) \cup {Call(op, c.row, c.draft)}
      /\ UNCHANGED <<instant, shot, owner, session, checkpoint, neglected, torn>>
  BY DEF Meta, NextCall
<1>3. /\ pass.pc = "backfill" /\ pass \in Passes /\ c.row \in Live /\ c.row \in SessionRows
      /\ c.draft \in Drafts /\ Spans(c.draft)
  BY <1>1, <1>2, CallFields DEF TypeInv, SessionTypeOK, CallsInv, CallOK, Live
<1>4. /\ pass'.pc = pass.pc /\ pass'.now = pass.now /\ pass'.whole = pass.whole
      /\ pass'.cut = pass.cut /\ pass'.owned[c.row] = OwnedBy(c.row)
  BY <1>2, <1>3 DEF Passes
<1>5. \A o \in plan : o.op \in First => o = c
  <2>1. CASE c.op = "new"
    BY <1>1, <2>1 DEF TypeInv, CallsInv, First
  <2>2. CASE c.op \in {"own", "extend"}
    BY <1>2, <2>2, AssignFirst
  <2> QED BY <1>2, <2>1, <2>2
<1>6. /\ op \in First /\ op \in {"assign", "add"}
      /\ op = "add" => c.op = "extend"
      /\ op = "assign" => c.op \in {"own", "new"}
  BY <1>2 DEF First
<1> HIDE DEF op
<1>7. Live' = Live /\ Sealed' = Sealed /\ \A r \in SessionRows : session'[r].end = session[r].end
  BY <1>2 DEF Live, Sealed, FrozenRows
<1>8. /\ c.op = "extend" => session[c.row].frozen
      /\ c.op # "put" => session[c.row].end = c.draft.end
  BY <1>3 DEF LossInv, PlanInv
<1>9. c.op = "own" => ~pass.whole /\ Ended(c.draft.end)
  <2>1. c.draft.end # 0
    <3>1. c.draft.end \in Instants
      BY <1>3 DEF Spans, Drafts
    <3> QED BY <3>1, SessionFacts DEF Instants
  <2>2. c.op = "own" => Ended(session[c.row].end) /\ session[c.row].end = c.draft.end
    BY <1>3, <1>8, <2>1 DEF LossInv, ClosedInv
  <2> QED BY <1>1, <1>3, <2>2 DEF ChunkInv
<1>10. \A t \in pass'.owned[c.row] \cap Shots : owner'[t] = c.row
  BY <1>2, <1>4 DEF OwnedBy
<1>11. /\ op = "add" => session'[c.row].frozen
       /\ op \in {"freeze", "confirm"} => \A t \in c.draft.ids \cap Shots :
                                             owner'[t] = c.row \/ FrozenOwned(t)'
       /\ op \in {"new", "assign", "freeze"} =>
             c.op \in {"new", "assign", "freeze"} \/ (~pass.whole /\ Ended(c.draft.end))
  BY <1>2, <1>6, <1>8, <1>9
<1>12. c.op \notin {"put", "undo"}
  BY <1>2
<1>13. GapInv' /\ ClosedInv' /\ FullCalls' /\ PlanInv' /\ TailFull' /\ BehindInv'
  BY <1>1, <1>2, <1>3, <1>4, <1>5, <1>6, <1>7, <1>10, <1>11, <1>12, ChunkStepLoss
<1>14. FullInv'
  BY <1>1, <1>2, <1>7, FullStays DEF LossInv
<1> QED BY <1>13, <1>14 DEF LossInv

\* assign_frames_session: the row has all of its frames, or is to be undone, or, if
\* it was frozen before, its chunk is given up,
LEMMA OwnLoss ==
    ASSUME DisjointInv, LossInv, NEW c \in plan, Own(c)
    PROVE  LossInv'
<1> DEFINE want == c.draft.ids \ pass.owned[c.row]
<1>1. TypeInv /\ TypeInv' /\ Steady
  BY OwnType DEF DisjointInv
<1>2. /\ pass.pc = "backfill" /\ c.op \in {"assign", "add"} /\ owner' = Assigned(want, c.row)
      /\ c \in Calls /\ c.row \in Live /\ c.row \in SessionRows
      /\ \A o \in plan : o.op \in First => o = c
      /\ UNCHANGED <<instant, shot, session, checkpoint, neglected, torn>>
      /\ \/ want \subseteq Assignable(want) /\ c.op = "add" /\ plan' = plan \ {c} /\ pass' = pass
         \/ /\ want \subseteq Assignable(want) /\ c.op = "assign" /\ pass' = pass
            /\ plan' = (plan \ {c}) \cup {Call("freeze", c.row, c.draft)}
         \/ c.op = "add" /\ plan' = {} /\ pass' = NoPass
         \/ c.op = "assign" /\ plan' = {Call("undo", c.row, c.draft)} /\ pass' = pass
  BY <1>1, OwnIs
<1>3. /\ Live' = Live /\ Sealed' = Sealed /\ Shots' = Shots
      /\ \A r \in SessionRows : session'[r].end = session[r].end
  BY <1>2 DEF Live, Sealed, FrozenRows, Shots
<1>4. FullInv'
  BY <1>1, <1>2, <1>3, FullStays DEF LossInv
<1>5. /\ c.op = "add" => session[c.row].frozen
      /\ \A t \in pass.owned[c.row] \cap Shots : owner[t] = c.row
  BY <1>2 DEF LossInv, PlanInv
<1>6. ASSUME want \subseteq Assignable(want), NEW t \in c.draft.ids \cap Shots
      PROVE  owner'[t] = c.row
  <2>1. PICK r \in {0} \cup Live : r = c.row
    BY <1>2
  <2> HIDE DEF want
  <2>2. /\ \A u \in Assignable(want) : Assigned(want, r)[u] = r
        /\ \A u \in Instants : u \notin want => Assigned(want, r)[u] = owner[u]
    BY <1>1, AssignedOK
  <2>3. t \in Instants /\ owner' = Assigned(want, r)
    BY <1>2, <2>1 DEF Shots
  <2>4. CASE t \in want
    BY <1>6, <2>1, <2>2, <2>3, <2>4
  <2>5. CASE t \notin want
    <3>1. t \in pass.owned[c.row]
      BY <2>5 DEF want
    <3> QED BY <1>5, <2>1, <2>2, <2>3, <2>5, <3>1
  <2> QED BY <2>4, <2>5
<1>7. ASSUME NEW op \in {"freeze", "undo"}, c.op = "assign", pass' = pass,
             plan' \subseteq (plan \ {c}) \cup {Call(op, c.row, c.draft)},
             Call(op, c.row, c.draft) \in plan',
             op = "undo" \/ (plan \ {c} \subseteq plan' /\ want \subseteq Assignable(want))
      PROVE  LossInv'
  <2>1. /\ op \in First /\ c.op \notin {"put", "undo"} /\ op \notin {"add", "assign", "new", "confirm"}
        /\ pass'.pc = "backfill" /\ pass'.cut = pass.cut /\ pass'.now = pass.now
        /\ pass'.whole = pass.whole
    BY <1>2, <1>7 DEF First
  <2>2. op = "freeze" => \A t \in c.draft.ids \cap Shots : owner'[t] = c.row
    BY <1>6, <1>7
  <2> HIDE DEF want
  <2>3. GapInv' /\ ClosedInv' /\ FullCalls' /\ PlanInv' /\ TailFull' /\ BehindInv'
    BY <1>1, <1>2, <1>3, <1>7, <2>1, <2>2, ChunkStepLoss
  <2> QED BY <1>4, <2>3 DEF LossInv
<1>8. CASE want \subseteq Assignable(want) /\ c.op = "add" /\ plan' = plan \ {c} /\ pass' = pass
  <2>1. \A t \in c.draft.ids \cap Shots : FrozenOwned(t)'
    <3>1. session'[c.row].frozen /\ c.row # 0
      BY <1>2, <1>5, <1>8, SessionFacts DEF SessionRows
    <3> QED BY <1>6, <1>8, <3>1 DEF FrozenOwned
  <2>2. /\ "undo" \in First /\ c.op \notin {"put", "undo"}
        /\ plan' \subseteq (plan \ {c}) \cup {Call("undo", c.row, c.draft)}
        /\ pass'.pc = "backfill" /\ pass'.cut = pass.cut /\ pass'.now = pass.now
        /\ pass'.whole = pass.whole
    BY <1>2, <1>8 DEF First
  <2>3. plan \ {c} \subseteq plan'
    BY <1>8
  <2> HIDE DEF want
  <2>4. GapInv' /\ ClosedInv' /\ FullCalls' /\ PlanInv' /\ TailFull' /\ BehindInv'
    BY <1>1, <1>2, <1>3, <2>1, <2>2, <2>3, ChunkStepLoss
  <2> QED BY <1>4, <2>4 DEF LossInv
<1>9. CASE want \subseteq Assignable(want) /\ c.op = "assign" /\ pass' = pass
           /\ plan' = (plan \ {c}) \cup {Call("freeze", c.row, c.draft)}
  BY <1>7, <1>9
<1>10. CASE c.op = "assign" /\ plan' = {Call("undo", c.row, c.draft)} /\ pass' = pass
  BY <1>7, <1>10
<1>11. CASE plan' = {} /\ pass' = NoPass
  <2>1. Coming' = {} /\ pass'.pc = "asleep"
    BY <1>11, NoPassIs DEF Coming
  <2>2. GapInv' /\ BehindInv'
    BY <1>1, <1>2, <2>1, GapStays, BehindStays DEF LossInv
  <2>3. \A r \in Live' : r \in Live /\ session[r].end = session'[r].end
    BY <1>2, <1>3
  <2>4. ClosedInv' /\ FullCalls'
    BY <1>1, <1>2, <2>1, <2>3, CallsStay DEF LossInv
  <2>5. PlanInv' /\ TailFull'
    BY <2>1 DEF PlanInv, TailFull
  <2> QED BY <1>4, <2>2, <2>4, <2>5 DEF LossInv
<1> HIDE DEF want
<1> QED BY <1>2, <1>8, <1>9, <1>10, <1>11

\* freeze_sessions: a row that a whole pass seals has the frames of its span,
LEMMA SealLoss ==
    ASSUME DisjointInv, LossInv, NEW c \in plan, Seal(c)
    PROVE  LossInv'
<1>1. TypeInv /\ ChunkInv /\ TypeInv' /\ Steady
  BY SealType DEF DisjointInv
<1>2. /\ c.op = "freeze" /\ c.op \in First /\ Freezes
      /\ plan' = (plan \ {c}) \cup {Call("confirm", c.row, c.draft)}
      /\ UNCHANGED <<instant, shot, owner, checkpoint, pass, neglected>>
  BY DEF Seal, NextCall, First
<1>3. /\ pass.pc = "backfill" /\ pass.now = instant /\ Shots' = Shots /\ c \in Calls
      /\ c.row \in Live /\ c.row \in SessionRows /\ c.draft \in Drafts /\ Spans(c.draft)
  BY <1>1, <1>2, CallFields DEF TypeInv, SessionTypeOK, ClockInv, CallsInv, CallOK, Shots, Live
<1>4. \A o \in plan : o.op \in First => o = c
  BY <1>1, <1>2 DEF TypeInv, CallsInv
<1>5. /\ \A r \in SessionRows : /\ session'[r].start = session[r].start
                                /\ session'[r].end = session[r].end
      /\ Live' = Live
      /\ \A r \in FrozenRows' : r \in FrozenRows \/ (r \in Unfrozen /\ Due(r))
      /\ pass.whole => torn' = torn
      /\ ~pass.whole => Sealed' \subseteq Sealed
  BY <1>1, <1>2, <1>3, FreezesSeals
<1>6. \A t \in c.draft.ids \cap Shots : owner[t] = c.row \/ FrozenOwned(t)
  BY <1>2, <1>3 DEF LossInv, PlanInv
<1>7. \A t \in c.draft.ids \cap Shots : owner'[t] = c.row \/ FrozenOwned(t)'
  BY <1>1, <1>2, <1>3, <1>6, OwnedStays
<1>8. GapInv' /\ ClosedInv' /\ FullCalls' /\ PlanInv' /\ TailFull' /\ BehindInv'
  <2>1. /\ "confirm" \in First /\ c.op \notin {"put", "undo"}
        /\ Call("confirm", c.row, c.draft) \in plan' /\ plan \ {c} \subseteq plan'
        /\ pass'.pc = "backfill" /\ pass'.cut = pass.cut /\ pass'.now = pass.now
        /\ pass'.whole = pass.whole
    BY <1>2, <1>3 DEF First
  <2> QED BY <1>1, <1>2, <1>3, <1>4, <1>5, <1>7, <2>1, ChunkStepLoss
<1>9. FullInv'
  <2>1. CASE ~pass.whole
    BY <1>1, <1>2, <1>5, <2>1, FullStays DEF LossInv
  <2>2. CASE pass.whole
    <3> SUFFICES ASSUME NEW r \in Sealed', NEW t \in Shots, In(t, session'[r])
                 PROVE  FrozenOwned(t)' \/ t \in neglected
      BY <1>2, <1>3 DEF FullInv
    <3>1. r \in FrozenRows' /\ r \notin torn /\ r \in SessionRows /\ In(t, session[r])
      BY <1>5, <2>2 DEF Sealed, FrozenRows, Live, In
    <3>2. CASE r \in FrozenRows
      <4>1. FrozenOwned(t) \/ t \in neglected
        BY <3>1, <3>2 DEF LossInv, FullInv, Sealed
      <4> QED BY <1>1, <1>3, <4>1, OwnedStays
    <3>3. CASE r \in Unfrozen /\ Due(r)
      <4>1. PICK o \in DueCalls : o.row = r
        BY <1>1, <1>3, <2>2, <3>3 DEF ChunkInv
      <4>2. o = c
        BY <1>4, <4>1 DEF DueCalls, First
      <4>3. c \in Coming /\ session[c.row] = RowOf(c.draft) /\ ~c.draft.open
        <5>1. c \in Coming
          BY <1>2 DEF Coming
        <5>2. ClearOK(c)
          BY <1>1, <1>3, <2>2, <5>1 DEF ChunkInv, ComingOK
        <5> QED BY <1>2, <5>1, <5>2 DEF ClearOK
      <4>4. session[r].start = c.draft.start /\ session[r].end = c.draft.end
        BY <1>3, <4>1, <4>2, <4>3, RowOfOK
      <4>5. t \in c.draft.ids
        BY <2>2, <3>1, <4>3, <4>4 DEF LossInv, FullCalls, In
      <4>6. owner'[t] = r \/ FrozenOwned(t)'
        BY <1>7, <4>1, <4>2, <4>5
      <4>7. owner'[t] = r => FrozenOwned(t)'
        BY <3>1, SessionFacts DEF FrozenOwned, FrozenRows, SessionRows
      <4> QED BY <4>6, <4>7
    <3> QED BY <1>5, <3>1, <3>2, <3>3
  <2> QED BY <2>1, <2>2
<1> QED BY <1>8, <1>9 DEF LossInv

\* get_session: the row is frozen with its frames, or is to be undone,
LEMMA ConfirmLoss ==
    ASSUME DisjointInv, LossInv, NEW c \in plan, Confirm(c)
    PROVE  LossInv'
<1>1. /\ TypeInv /\ TypeInv' /\ Steady /\ pass.pc = "backfill" /\ c.op = "confirm" /\ c \in Calls
      /\ UNCHANGED <<instant, shot, owner, session, checkpoint, pass, neglected, torn>>
      /\ \/ session[c.row].frozen /\ plan' = plan \ {c}
         \/ plan' = {Call("undo", c.row, c.draft)}
  BY ConfirmType DEF DisjointInv
<1>2. /\ Live' = Live /\ Sealed' = Sealed /\ Shots' = Shots
      /\ \A r \in SessionRows : session'[r].end = session[r].end
      /\ c.row \in SessionRows
  BY <1>1 DEF Live, Sealed, FrozenRows, Shots, TypeInv, CallsInv, CallOK
<1>3. \A o \in plan : o.op \in First => o = c
  BY <1>1 DEF TypeInv, CallsInv, First
<1>4. FullInv'
  BY <1>1, <1>2, FullStays DEF LossInv
<1>5. \/ Call("undo", c.row, c.draft) \in plan'
      \/ plan \ {c} \subseteq plan' /\ \A t \in c.draft.ids \cap Shots : FrozenOwned(t)'
  <2>1. CASE session[c.row].frozen /\ plan' = plan \ {c}
    <3>1. \A t \in c.draft.ids \cap Shots : owner[t] = c.row \/ FrozenOwned(t)
      BY <1>1 DEF LossInv, PlanInv
    <3>2. c.row # 0
      BY <1>2, SessionFacts DEF SessionRows
    <3> QED BY <1>1, <2>1, <3>1, <3>2 DEF FrozenOwned
  <2>2. CASE plan' = {Call("undo", c.row, c.draft)}
    BY <2>2
  <2> QED BY <1>1, <2>1, <2>2
<1>6. /\ "undo" \in First /\ c.op \notin {"put", "undo"}
      /\ plan' \subseteq (plan \ {c}) \cup {Call("undo", c.row, c.draft)}
      /\ pass'.pc = "backfill" /\ pass'.cut = pass.cut /\ pass'.now = pass.now
      /\ pass'.whole = pass.whole
  BY <1>1 DEF First
<1>7. GapInv' /\ ClosedInv' /\ FullCalls' /\ PlanInv' /\ TailFull' /\ BehindInv'
  BY <1>1, <1>2, <1>3, <1>5, <1>6, ChunkStepLoss
<1> QED BY <1>4, <1>7 DEF LossInv

\* delete_unfrozen_session: the chunk is read again.
LEMMA UndoLoss ==
    ASSUME DisjointInv, LossInv, NEW c \in plan, Undo(c)
    PROVE  LossInv'
<1>1. /\ TypeInv /\ TypeInv' /\ Steady /\ c.row \in SessionRows /\ Deleted(c.row)
      /\ plan' = {} /\ pass' = NoPass
      /\ UNCHANGED <<instant, shot, checkpoint, neglected, torn>>
  BY UndoType DEF DisjointInv
<1>2. Live' \subseteq Live /\ \A r \in Live' : session'[r] = session[r]
  <2>1. /\ \A s \in SessionRows : s # c.row \/ session[s].frozen => session'[s] = session[s]
        /\ ~session[c.row].frozen => session'[c.row] = NoRow
    BY <1>1, DeletedOK
  <2> QED BY <2>1 DEF Live, NoRow
<1>3. Sealed' \subseteq Sealed /\ Coming' = {} /\ pass'.pc = "asleep"
  BY <1>1, <1>2, NoPassIs DEF Sealed, FrozenRows, Coming
<1>4. GapInv' /\ BehindInv'
  BY <1>1, <1>3, GapStays, BehindStays DEF LossInv
<1>5. ClosedInv' /\ FullCalls'
  BY <1>1, <1>2, <1>3, CallsStay DEF LossInv
<1>6. FullInv'
  BY <1>1, <1>3, FullStays DEF LossInv
<1>7. PlanInv' /\ TailFull'
  BY <1>3 DEF PlanInv, TailFull
<1> QED BY <1>4, <1>5, <1>6, <1>7 DEF LossInv

-----------------------------------------------------------------------------
(* What a chunk opens with: no frame of it is passed over. *)

\* Every stretch that is long enough is a draft, and every draft with something
\* left a call.
LEMMA SegmentHas ==
    ASSUME NEW F \in SUBSET Instants, NEW t \in F, NEW now, ~Short(F, t)
    PROVE  \E d \in Segment(F, now) : /\ d.ids = TrackOf(F, t)
                                      /\ d.start = Min(TrackOf(F, t)) /\ d.end = Max(TrackOf(F, t))
<1> DEFINE T == TrackOf(F, t)
           d == Draft(T, Max(T) = Max(F) /\ now < Max(T) + MergeGap)
<1>1. Max(T) \in Nat /\ Min(T) \in Nat
  BY TrackOK, InstantsNat DEF IsTrack
<1>2. Max(T) - Min(T) >= MinLength
  <2>1. ~(Max(T) - Min(T) < MinLength)
    BY DEF Short
  <2> HIDE DEF T
  <2> QED BY <1>1, <2>1, SessionFacts
<1>3. d \in Segment(F, now)
  <2>1. T \in {{u \in F : Linked(F, s, u)} : s \in F}
    BY DEF TrackOf
  <2> HIDE DEF T
  <2> QED BY <1>2, <2>1 DEF Segment
<1>4. d.ids = T /\ d.start = Min(T) /\ d.end = Max(T)
  BY DraftFields
<1> HIDE DEF d
<1> QED BY <1>3, <1>4

\* (each draft of a chunk has a call, unless rows cover all of it)
LEMMA BackfillCallHas ==
    ASSUME NEW F, F # {}, NEW cursor, NEW cut, NEW now, NEW d \in Segment(F, cut + MergeGap)
    PROVE  \/ \E c \in BackfillCalls(F, cursor, cut, now) : c.draft = d
           \/ HeadOf(d, Existing(cursor, cut, now)) = {}
           \/ \E c \in BackfillCalls(F, cursor, cut, now) :
                 c.draft = Narrowed(d, HeadOf(d, Existing(cursor, cut, now)))
<1> DEFINE existing == Existing(cursor, cut, now)
           same(x) == {r \in existing : session[r].key = x.key /\ session[r].start = x.start
                                       /\ session[r].end = x.end}
           rest(x) == TrimHead(x, {r \in existing : session[r].frozen})
           D == Segment(F, cut + MergeGap)
           known == {x \in D : same(x) # {}}
           own(x) == Call(IF session[Max(same(x))].frozen THEN "extend" ELSE "own", Max(same(x)), x)
           put(x) == Call("put", 0, Narrowed(x, rest(x)))
<1>1. BackfillCalls(F, cursor, cut, now) =
          {own(x) : x \in known} \cup {put(x) : x \in {y \in D \ known : rest(y) # {}}}
  BY DEF BackfillCalls, Existing
<1>2. rest(d) = HeadOf(d, existing)
  BY DEF TrimHead, HeadOf
<1>3. own(d).draft = d /\ put(d).draft = Narrowed(d, rest(d))
  BY DEF Call
<1>4. CASE d \in known
  <2> HIDE DEF known, own, put, D, rest, existing
  <2> QED BY <1>1, <1>3, <1>4
<1>5. CASE d \notin known
  <2>1. rest(d) # {} => put(d) \in BackfillCalls(F, cursor, cut, now)
    <3> HIDE DEF known, own, put, rest, same, existing
    <3> QED BY <1>1, <1>5
  <2> HIDE DEF known, own, put, D, rest, existing
  <2> QED BY <1>2, <1>3, <2>1 DEF existing
<1> QED BY <1>4, <1>5

\* A frame of the chunk is settled or a call's.
LEMMA OpensCatches ==
    ASSUME TypeInv, ClosedInv, NEW cursor \in Nat, NEW cut \in Nat, Gap(cursor), Gap(cut),
           NEW now, NEW F, F = Between(cursor, cut), NEW t \in F
    PROVE  Settles(t) \/ \E c \in BackfillCalls(F, cursor, cut, now) : t \in c.draft.ids
<1> DEFINE T == TrackOf(F, t)
           E == Existing(cursor, cut, now)
<1>1. F \in SUBSET Shots /\ F \in SUBSET Instants /\ Shots \in SUBSET Instants
      /\ \A u \in F : cursor <= u /\ u < cut
  BY DEF Between, Shots
<1>2. IsTrack(F, T) /\ t \in T
  BY <1>1, TrackOK, LinkedSelf DEF TrackOf
<1>3. CASE Short(F, t)
  <2>1. \A u \in Shots : cursor <= u /\ u < cut => u \in F
    BY DEF Between
  <2>2. TrackOf(Shots, t) \subseteq T
    <3> DEFINE G == Shots
    <3>1. G \in SUBSET Instants /\ t \in G /\ cursor <= t /\ t < cut
      BY <1>1
    <3>2. /\ \A u \in G : cursor <= u /\ u < cut => u \in F
          /\ \A a, b \in G : a < cursor /\ cursor <= b => a + MergeGap <= b
          /\ \A a, b \in G : a < cut /\ cut <= b => a + MergeGap <= b
      BY <2>1 DEF Gap
    <3> HIDE DEF G
    <3>3. TrackOf(G, t) \subseteq TrackOf(F, t)
      BY <1>1, <3>1, <3>2, TrackShrinks
    <3> QED BY <3>3 DEF G
  <2>3. Short(Shots, t)
    BY <1>1, <1>3, <2>2, ShortStays
  <2> QED BY <2>3 DEF Settles
<1>4. CASE ~Short(F, t)
  <2>1. PICK d \in Segment(F, cut + MergeGap) : d.ids = T /\ d.start = Min(T) /\ d.end = Max(T)
    BY <1>1, <1>4, SegmentHas
  <2>2. d \in Drafts /\ F # {}
    BY <1>1, SegmentTyped DEF TypeInv, SessionTypeOK
  <2>3. CASE \E c \in BackfillCalls(F, cursor, cut, now) : c.draft = d
    BY <1>2, <2>1, <2>3
  <2>4. CASE t \in HeadOf(d, E) /\ \E c \in BackfillCalls(F, cursor, cut, now) :
                                     c.draft = Narrowed(d, HeadOf(d, E))
    <3>1. Narrowed(d, HeadOf(d, E)).ids = HeadOf(d, E)
      BY <2>2, <2>4, NarrowedOK DEF HeadOf
    <3> QED BY <2>4, <3>1
  <2>5. CASE t \notin HeadOf(d, E)
    <3> DEFINE meets(r) == session[r].frozen /\ Overlaps(d, r) /\ session[r].start <= t
               Q == {session[r].start : r \in {s \in E : meets(s)}}
    <3>1. \A r \in E : session[r].frozen => r \in FrozenRows /\ r \in Live
      BY DEF Existing, FrozenRows
    <3>2. t \in Nat /\ {d.start, d.end} \subseteq Nat /\ d.start \in T /\ d.end \in T
          /\ T \subseteq F /\ T \subseteq Nat
          /\ (\A u \in T : d.start <= u /\ u <= d.end)
          /\ \A u \in T, v \in F : u < v /\ v < u + MergeGap => v \in T
      BY <1>1, <1>2, <2>1, InstantsNat DEF IsTrack
    <3>3. PICK r \in E : meets(r)
      <4>1. PICK r \in E : session[r].frozen /\ Overlaps(d, r) /\ ~(t < session[r].start)
        BY <1>2, <2>1, <2>5 DEF HeadOf
      <4>2. session[r].start \in Nat
        BY <3>1, <4>1, SealedRow
      <4> QED BY <3>2, <4>1, <4>2
    <3>4. Q \in SUBSET (0..LastInstant) /\ Q # {}
      <4>1. \A s \in E : meets(s) => session[s].start \in 0..LastInstant
        BY <3>1, SealedRow
      <4> QED BY <3>3, <4>1
    <3>5. PICK q \in Q : \A k \in Q : k <= q
      <4> HIDE DEF Q
      <4> QED BY <3>4, SessionFacts, GreatestNatural
    <3>6. PICK g \in E : meets(g) /\ session[g].start = q
      OBVIOUS
    <3>7. /\ g \in FrozenRows /\ g \in Live
          /\ session[g].start \in Nat /\ session[g].end \in Nat /\ session[g].start <= session[g].end
          /\ 1 <= session[g].start /\ d.start <= session[g].end /\ session[g].start <= t
      BY <3>1, <3>6, SealedRow DEF Overlaps
    <3> DEFINE e == session[g].end
    <3>8. CASE t <= e
      BY <3>7, <3>8 DEF Settles, In
    <3>9. CASE e < t
      <4> DEFINE P == {x \in T : x <= e}
      <4>1. P \in SUBSET (0..LastInstant) /\ d.start \in P
        <5>1. T \subseteq 0..LastInstant
          BY <1>1, <3>2, InstantsNat
        <5> QED BY <5>1, <3>2, <3>7
      <4>2. PICK p \in P : \A k \in P : k <= p
        <5> HIDE DEF P
        <5> QED BY <4>1, SessionFacts, GreatestNatural
      <4>3. p \in T /\ p \in F /\ p <= e /\ p \in Nat /\ p < t /\ e \in Nat
        BY <3>2, <3>7, <3>9, <4>2
      <4>4. PICK n \in F : p < n /\ n - p < MergeGap
        <5>1. Linked(F, p, t)
          <6>1. Linked(F, t, p)
            BY <4>3 DEF TrackOf
          <6> QED BY <1>1, <4>3, <6>1, LinkedBack
        <5> QED BY <4>3, <5>1, <3>2 DEF Linked
      <4>5. n \in Nat /\ n < p + MergeGap
        <5>1. n \in Nat
          BY <1>1, InstantsNat
        <5> QED BY <5>1, <4>3, <4>4, SessionFacts
      <4>6. n \in T
        BY <3>2, <4>3, <4>4, <4>5
      <4>7. e < n
        BY <4>2, <4>3, <4>4, <4>5, <4>6
      <4> DEFINE m == IF n <= t THEN n ELSE t
      <4>8. m \in After(e) /\ m <= t /\ m \in Nat
        <5>1. m \in Shots /\ m \in Nat /\ m <= t /\ m <= n /\ e < m
          BY <1>1, <3>2, <3>9, <4>4, <4>5, <4>7
        <5>2. m < e + MergeGap
          <6> HIDE DEF m
          <6> QED BY <4>3, <4>5, <5>1, SessionFacts
        <5> QED BY <5>1, <5>2 DEF After
      <4>9. Covered(e)
        <5>1. e # 0
          BY <3>7
        <5> QED BY <3>7, <5>1 DEF ClosedInv, Ended
      <4>10. PICK h \in FrozenRows : e < session[h].start /\ session[h].start <= m
        <5> HIDE DEF m
        <5> QED BY <4>8, <4>9 DEF Covered
      <4>11. /\ session[h].start \in Nat /\ session[h].end \in Nat
             /\ session[h].start <= session[h].end /\ h \in Live /\ session[h].frozen
        BY <4>10, SealedRow DEF FrozenRows
      <4> HIDE DEF m
      <4>12. cursor <= d.start /\ t < cut
        BY <1>1, <3>2
      <4>13. h \in E
        BY <3>2, <3>7, <4>3, <4>8, <4>10, <4>11, <4>12 DEF Existing
      <4>14. Overlaps(d, h) /\ session[h].start <= t
        <5>1. t <= d.end
          BY <1>2, <3>2
        <5> QED BY <3>2, <3>7, <4>3, <4>8, <4>10, <4>11, <5>1 DEF Overlaps
      <4>15. session[h].start \in Q
        BY <4>11, <4>13, <4>14
      <4> HIDE DEF Q
      <4>16. session[h].start <= session[g].start
        BY <3>5, <3>6, <4>15
      <4> QED BY <3>7, <4>10, <4>11, <4>16
    <3> QED BY <3>2, <3>7, <3>8, <3>9
  <2>6. \/ \E c \in BackfillCalls(F, cursor, cut, now) : c.draft = d
        \/ HeadOf(d, E) = {}
        \/ \E c \in BackfillCalls(F, cursor, cut, now) : c.draft = Narrowed(d, HeadOf(d, E))
    BY <2>2, BackfillCallHas
  <2> QED BY <2>3, <2>4, <2>5, <2>6
<1> QED BY <1>3, <1>4

\* What is left of a draft has the frames of its span.
LEMMA HeadDraftFull ==
    ASSUME TypeInv, NEW cursor \in Nat, NEW cut \in Nat, NEW now,
           NEW F, F = Between(cursor, cut), NEW d \in Segment(F, cut + MergeGap), NEW e,
           HeadParts(e, d, F, Existing(cursor, cut, now), cut), NEW t \in Shots, In(t, e)
    PROVE  t \in e.ids
<1> DEFINE E == Existing(cursor, cut, now)
<1>1. /\ e.ids \in SUBSET d.ids /\ d.ids \in SUBSET F
      /\ Spans(e) /\ DraftOK(F, d)
      /\ \A q \in E, u \in e.ids : session[q].frozen /\ Overlaps(d, q) => u < session[q].start
      /\ \A u \in d.ids : u \in e.ids
            \/ \E r \in E : session[r].frozen /\ Overlaps(d, r) /\ ~(u < session[r].start)
      /\ d.ids \subseteq Nat /\ {e.start, e.end, d.start, d.end} \subseteq Nat
  BY DEF HeadParts
<1>2. /\ e.end \in d.ids /\ e.end \in e.ids /\ e.start \in d.ids
      /\ \A u \in d.ids : cursor <= u /\ u < cut /\ d.start <= u /\ u <= d.end
  BY <1>1 DEF Spans, DraftOK, Between
<1>3. t \in Nat /\ e.start <= t /\ t <= e.end
  BY InstantsNat DEF In, Shots
<1>4. t \in F /\ In(t, d)
  BY <1>1, <1>2, <1>3 DEF Between, In
<1>5. t \in d.ids
  <2>1. F \in SUBSET Instants
    BY BetweenOK
  <2> HIDE DEF E
  <2> QED BY <1>4, <2>1, SegmentFull
<1>6. ASSUME NEW r \in E, session[r].frozen, Overlaps(d, r) PROVE t < session[r].start
  <2>1. e.end < session[r].start
    BY <1>1, <1>2, <1>6
  <2>2. session[r].start \in Nat
    BY <1>6, SealedRow DEF Existing, FrozenRows
  <2> QED BY <1>1, <1>3, <2>1, <2>2
<1> QED BY <1>1, <1>5, <1>6

\* The chunk that is opened.
LEMMA ChunkOpensLoss ==
    ASSUME DisjointInv, LossInv, BackfillOpens, NEW cursor \in Nat, NEW cut \in Nat,
           cursor = checkpoint'.cursor,
           pass' = [pass EXCEPT !.pc = "backfill", !.cut = cut],
           plan' = BackfillCalls(Between(cursor, cut), cursor, cut, pass.now),
           cut + Lookback <= pass.now, CutIsSafe(cursor, cut), Gap(cursor), Gap(cut)
    PROVE  /\ ClosedInv' /\ FullCalls' /\ PlanInv'
           /\ \A t \in Shots' : cursor <= t /\ t < cut =>
                 Settles(t)' \/ \E c \in plan' : t \in c.draft.ids
<1> DEFINE F == Between(cursor, cut)
           E == Existing(cursor, cut, pass.now)
           S == Segment(F, cut + MergeGap)
           e(d) == Narrowed(d, HeadOf(d, E))
<1>1. TypeInv /\ ClosedInv
  BY DEF DisjointInv, LossInv
<1>2. pass.pc = "open" /\ UNCHANGED <<instant, shot, owner, session, neglected, torn, upsets>>
  BY <1>1, OpensIs
<1>3. /\ FrozenRows' = FrozenRows /\ Shots' = Shots /\ Live' = Live
  BY <1>2 DEF FrozenRows, Live, Shots
<1>4. pass'.pc = "backfill" /\ pass'.now = pass.now /\ pass.now = instant /\ instant \in Nat
  BY <1>1, <1>2, InstantsNat DEF TypeInv, SessionTypeOK, ClockInv, Passes
<1>5. F \in SUBSET Shots /\ F \in SUBSET Instants
  BY BetweenOK
<1>6. ASSUME NEW d \in S
      PROVE  d.end \in Nat /\ d.end < cut /\ ~d.open
  <2>1. DraftOK(F, d) /\ d.open = (d.end = Max(F) /\ cut + MergeGap < d.end + MergeGap)
    <3> HIDE DEF F
    <3> QED BY <1>5, SegmentOK
  <2>2. d.end \in F
    BY <2>1 DEF DraftOK
  <2>3. d.end \in Nat /\ d.end < cut
    BY <1>5, <2>2, InstantsNat DEF Between
  <2>4. ~(cut + MergeGap < d.end + MergeGap)
    BY <2>3, SessionFacts
  <2> QED BY <2>1, <2>3, <2>4
<1>7. ASSUME NEW d \in S, HeadOf(d, E) # {}
      PROVE  /\ Covered(e(d).end) /\ e(d).end \in Nat /\ e(d).end < cut /\ ~e(d).open
             /\ \A t \in Shots : In(t, e(d)) => t \in e(d).ids
  <2> DEFINE x == e(d)
  <2>1. HeadParts(x, d, F, E, cut)
    <3> HIDE DEF F
    <3> QED BY <1>1, <1>5, <1>7, HeadDraftParts
  <2> HIDE DEF x
  <2>2. Covered(x.end) /\ x.end < cut /\ ~x.open
    <3> HIDE DEF F
    <3>1. F = Between(cursor, cut)
      BY DEF F
    <3> QED BY <1>1, <2>1, <3>1, HeadDraftCovered
  <2>3. \A t \in Shots : In(t, x) => t \in x.ids
    <3> HIDE DEF F
    <3>1. F = Between(cursor, cut)
      BY DEF F
    <3> QED BY <1>1, <2>1, <3>1, HeadDraftFull
  <2>4. x.end \in Nat
    BY <2>1 DEF HeadParts
  <2> QED BY <2>2, <2>3, <2>4 DEF x
<1>8. ASSUME NEW c \in plan'
      PROVE  /\ ~c.draft.open /\ c.draft.end \in Nat /\ c.draft.end < cut
             /\ c.op # "put" => session[c.row].end = c.draft.end
             /\ c.op = "extend" => session[c.row].frozen
             /\ c.op \in {"extend", "own", "put"}
             /\ c \in Coming' => /\ Covered(c.draft.end)
                                 /\ \A t \in Shots : In(t, c.draft) => t \in c.draft.ids
  <2>1. c \in BackfillCalls(F, cursor, cut, pass.now)
    OBVIOUS
  <2>2. PICK d \in S :
          \/ \E r \in E : /\ session[r].end = d.end
                          /\ c = Call(IF session[r].frozen THEN "extend" ELSE "own", r, d)
          \/ HeadOf(d, E) # {} /\ c = Call("put", 0, e(d))
    <3> HIDE DEF F
    <3> QED BY <2>1, BackfillCallIs
  <2>3. ASSUME NEW r \in E, session[r].end = d.end,
               c = Call(IF session[r].frozen THEN "extend" ELSE "own", r, d)
        PROVE  /\ c.draft = d /\ c.row = r /\ c.op \in {"extend", "own"} /\ c \notin Coming'
               /\ c.op = "extend" => session[r].frozen
    <3>1. c.draft = d /\ c.row = r /\ c.op = IF session[r].frozen THEN "extend" ELSE "own"
      <4> HIDE DEF E, S
      <4> QED BY <2>3 DEF Call
    <3> QED BY <3>1 DEF Coming
  <2>4. ASSUME HeadOf(d, E) # {}, c = Call("put", 0, e(d))
        PROVE  c.draft = e(d) /\ c.op = "put"
    <3> HIDE DEF e
    <3> QED BY <2>4 DEF Call
  <2>5. CASE \E r \in E : /\ session[r].end = d.end
                          /\ c = Call(IF session[r].frozen THEN "extend" ELSE "own", r, d)
    <3>1. PICK r \in E : /\ session[r].end = d.end
                         /\ c = Call(IF session[r].frozen THEN "extend" ELSE "own", r, d)
      BY <2>5
    <3>2. /\ c.draft = d /\ c.row = r /\ c.op \in {"extend", "own"} /\ c \notin Coming'
          /\ c.op = "extend" => session[r].frozen
      BY <2>3, <3>1
    <3> HIDE DEF E, S
    <3> QED BY <1>6, <3>1, <3>2
  <2>6. CASE HeadOf(d, E) # {} /\ c = Call("put", 0, e(d))
    <3>1. c.draft = e(d) /\ c.op = "put"
      BY <2>4, <2>6
    <3>2. /\ Covered(e(d).end) /\ e(d).end \in Nat /\ e(d).end < cut /\ ~e(d).open
          /\ \A t \in Shots : In(t, e(d)) => t \in e(d).ids
      BY <1>7, <2>6
    <3> HIDE DEF E, S, e
    <3> QED BY <3>1, <3>2
  <2> QED BY <2>2, <2>5, <2>6
<1> HIDE DEF E, S, e
<1>9. Coming' \subseteq plan'
  BY DEF Coming
<1>10. ClosedInv'
  <2>1. ASSUME NEW c \in Coming' PROVE Ended(c.draft.end)
    <3>1. Covered(c.draft.end) /\ c.draft.end \in Nat /\ c.draft.end < cut
      BY <1>8, <1>9
    <3> QED BY <3>1, <1>4, SessionFacts DEF Ended
  <2>2. \A r \in Live : session[r].end # 0 => Ended(session[r].end)
    BY <1>1 DEF ClosedInv
  <2> QED BY <1>2, <1>3, <2>1, <2>2 DEF ClosedInv, Ended, Covered, After
<1>11. FullCalls'
  <2>1. ASSUME NEW c \in Coming'
        PROVE  c.draft.end <= instant /\ \A t \in Shots : In(t, c.draft) => t \in c.draft.ids
    <3>1. c.draft.end \in Nat /\ c.draft.end < cut
      BY <1>8, <1>9
    <3>2. c.draft.end <= instant
      BY <3>1, <1>4, SessionFacts
    <3> QED BY <3>2, <1>8, <1>9
  <2> QED BY <1>2, <1>3, <2>1 DEF FullCalls, In
<1>12. PlanInv'
  <2>1. ASSUME NEW c \in plan' PROVE c.draft.end + Lookback < pass.now
    <3>1. c.draft.end \in Nat /\ c.draft.end < cut
      BY <1>8
    <3> QED BY <3>1, <1>4, SessionFacts
  <2> QED BY <1>2, <1>4, <1>8, <2>1 DEF PlanInv
<1>13. ASSUME NEW t \in Shots, cursor <= t, t < cut
       PROVE  Settles(t)' \/ \E c \in plan' : t \in c.draft.ids
  <2>1. t \in F
    BY <1>13 DEF Between
  <2>2. Settles(t) \/ \E c \in plan' : t \in c.draft.ids
    <3> HIDE DEF F
    <3>1. F = Between(cursor, cut)
      BY DEF F
    <3> QED BY <1>1, <2>1, <3>1, OpensCatches
  <2>3. Settles(t) => Settles(t)'
    BY <1>2, <1>3 DEF Settles, FrozenOwned, Short, TrackOf, Linked, In
  <2> QED BY <2>2, <2>3
<1> QED BY <1>3, <1>10, <1>11, <1>12, <1>13

\* and opening a chunk: each of its frames is owned, in a call to come, or too few
\* to be a session.
LEMMA BackfillOpensLoss ==
    ASSUME DisjointInv, LossInv, BackfillOpens
    PROVE  LossInv'
<1>1. TypeInv /\ TypeInv' /\ Steady
  BY BackfillOpensType DEF DisjointInv
<1>2. /\ pass.pc = "open" /\ plan = {}
      /\ checkpoint' \in [cursor : 0..LastInstant, target : 0..LastInstant]
      /\ checkpoint'.target # 0
      /\ checkpoint.target # 0 => checkpoint' = checkpoint
      /\ checkpoint.target = 0 => /\ checkpoint'.cursor + Lookback <= instant
                                  /\ \A t \in Shots : checkpoint'.cursor <= t
      /\ UNCHANGED <<instant, shot, owner, session, neglected, torn, upsets>>
      /\ \/ pass' = NoPass /\ plan' = {}
         \/ \E cursor \in Nat, cut \in Nat :
               /\ cursor = checkpoint'.cursor /\ cursor <= cut
               /\ pass' = [pass EXCEPT !.pc = "backfill", !.cut = cut]
               /\ plan' = BackfillCalls(Between(cursor, cut), cursor, cut, pass.now)
               /\ cut + Lookback <= pass.now /\ CutIsSafe(cursor, cut)
  BY <1>1, OpensIs
<1>3. /\ Sealed' = Sealed /\ FrozenRows' = FrozenRows /\ Shots' = Shots /\ Live' = Live
  BY <1>2 DEF Sealed, FrozenRows, Live, Shots
<1>4. pass.now = instant /\ instant \in Nat /\ checkpoint'.cursor \in Nat
  <2>1. checkpoint'.cursor \in 0..LastInstant
    BY <1>2
  <2>2. pass.now = instant /\ instant \in Nat
    BY <1>1, <1>2, InstantsNat DEF TypeInv, SessionTypeOK, ClockInv
  <2> QED BY <2>1, <2>2, SessionFacts
<1>5. FullInv'
  BY <1>1, <1>2, <1>3, FullStays DEF LossInv
<1>6. /\ checkpoint'.cursor + Lookback <= instant /\ Gap(checkpoint'.cursor)
      /\ \A t \in Shots : t < checkpoint'.cursor => Settles(t)
  <2>1. CASE checkpoint.target # 0
    BY <1>2, <2>1 DEF LossInv, GapInv, BehindInv
  <2>2. CASE checkpoint.target = 0
    <3>1. ASSUME NEW t \in Shots PROVE ~(t < checkpoint'.cursor)
      <4>1. t \in Nat /\ checkpoint'.cursor <= t
        BY <1>2, <2>2, InstantsNat DEF Shots
      <4> QED BY <1>4, <4>1
    <3> QED BY <1>2, <2>2, <3>1 DEF Gap
  <2> QED BY <2>1, <2>2
<1>7. /\ \A t \in Shots : Settles(t) => Settles(t)'
      /\ \A x \in Nat : Gap(x) => Gap(x)'
  <2>1. \A x \in Nat : Gap(x) => Gap(x)'
    BY <1>3 DEF Gap
  <2> QED BY <1>2, <1>3, <2>1 DEF Settles, FrozenOwned, Short, TrackOf, Linked, In
<1>8. CASE pass' = NoPass /\ plan' = {}
  <2>1. pass'.pc = "asleep" /\ Coming' = {}
    BY <1>8, NoPassIs DEF Coming
  <2>2. GapInv' /\ BehindInv'
    BY <1>2, <1>3, <1>6, <1>7, <2>1 DEF GapInv, BehindInv, Gap
  <2>3. ClosedInv' /\ FullCalls'
    BY <1>1, <1>2, <1>3, <2>1, CallsStay DEF LossInv
  <2>4. PlanInv' /\ TailFull'
    BY <2>1 DEF PlanInv, TailFull
  <2> QED BY <1>5, <2>2, <2>3, <2>4 DEF LossInv
<1>9. CASE \E cursor \in Nat, cut \in Nat :
               /\ cursor = checkpoint'.cursor /\ cursor <= cut
               /\ pass' = [pass EXCEPT !.pc = "backfill", !.cut = cut]
               /\ plan' = BackfillCalls(Between(cursor, cut), cursor, cut, pass.now)
               /\ cut + Lookback <= pass.now /\ CutIsSafe(cursor, cut)
  <2>1. PICK cursor \in Nat, cut \in Nat :
               /\ cursor = checkpoint'.cursor /\ cursor <= cut
               /\ pass' = [pass EXCEPT !.pc = "backfill", !.cut = cut]
               /\ plan' = BackfillCalls(Between(cursor, cut), cursor, cut, pass.now)
               /\ cut + Lookback <= pass.now /\ CutIsSafe(cursor, cut)
    BY <1>9
  <2>2. pass'.pc = "backfill" /\ pass'.cut = cut
    BY <1>1, <2>1 DEF TypeInv, SessionTypeOK, Passes
  <2>3. Gap(cursor) /\ Gap(cut)
    <3>1. Gap(cursor)
      BY <1>6, <2>1
    <3> SUFFICES ASSUME NEW a \in Shots, NEW b \in Shots, a < cut, cut <= b
                 PROVE  a + MergeGap <= b
      BY <3>1 DEF Gap
    <3>2. a \in Nat /\ b \in Nat
      BY InstantsNat DEF Shots
    <3>3. CASE cursor <= a
      BY <2>1, <3>3 DEF CutIsSafe
    <3>4. CASE a < cursor
      <4>1. cursor <= b
        BY <2>1, <3>2
      <4> QED BY <3>1, <3>4, <4>1 DEF Gap
    <3> QED BY <3>2, <3>3, <3>4
  <2>4. /\ ClosedInv' /\ FullCalls' /\ PlanInv'
        /\ \A t \in Shots' : cursor <= t /\ t < cut =>
              Settles(t)' \/ \E c \in plan' : t \in c.draft.ids
    BY <2>1, <2>3, ChunkOpensLoss
  <2>5. GapInv'
    <3>1. Gap(checkpoint.cursor)' /\ Gap(pass.cut)'
      BY <1>3, <2>1, <2>2, <2>3 DEF Gap
    <3>2. pass'.cut + Lookback <= instant'
      BY <1>2, <1>4, <2>1, <2>2
    <3> QED BY <1>2, <1>6, <3>1, <3>2 DEF GapInv
  <2>6. BehindInv'
    <3>1. ASSUME NEW t \in Shots', t < checkpoint'.cursor PROVE Settles(t)'
      BY <1>3, <1>6, <1>7, <3>1
    <3>2. ASSUME NEW t \in Shots', t < cut
          PROVE  Settles(t)' \/ \E c \in plan' : t \in c.draft.ids
      <4>1. CASE cursor <= t
        BY <2>4, <3>2, <4>1
      <4>2. CASE ~(cursor <= t)
        <5>1. t < checkpoint'.cursor
          BY <1>3, <2>1, <4>2, InstantsNat DEF Shots
        <5> QED BY <3>1, <5>1
      <4> QED BY <4>1, <4>2
    <3> QED BY <2>2, <3>1, <3>2 DEF BehindInv
  <2>7. TailFull'
    BY <2>2 DEF TailFull
  <2> QED BY <1>5, <2>4, <2>5, <2>6, <2>7 DEF LossInv
<1> QED BY <1>2, <1>8, <1>9

\* At the start nothing is behind the cursor.
LEMMA SessionInitLoss == SessionInit => LossInv
<1> SUFFICES ASSUME SessionInit PROVE LossInv
  OBVIOUS
<1>1. /\ instant = FirstPass /\ checkpoint.cursor = 0 /\ pass.pc = "asleep" /\ plan = {}
      /\ Live = {} /\ Coming = {} /\ Sealed = {}
  BY DEF SessionInit, NoPass, Live, NoRow, Coming, Sealed, FrozenRows
<1>2. \A t \in Shots : ~(t < 0)
  BY InstantsNat DEF Shots
<1>3. GapInv
  BY <1>1, <1>2, SessionFacts DEF GapInv, Gap
<1>4. ClosedInv /\ FullCalls /\ PlanInv /\ TailFull /\ FullInv
  BY <1>1 DEF ClosedInv, FullCalls, PlanInv, TailFull, FullInv
<1>5. BehindInv
  BY <1>1, <1>2 DEF BehindInv
<1> QED BY <1>3, <1>4, <1>5 DEF LossInv

\* Together: LossInv is inductive, given DisjointInv.
LEMMA SessionStepLoss ==
    ASSUME DisjointInv, LossInv, [SessionNext]_sessionVars
    PROVE  LossInv'
<1>1. CASE PassBegins \/ PassFreezes \/ BackfillOpens \/ SaveCheckpoint
  BY <1>1, PassBeginsLoss, PassFreezesLoss, BackfillOpensLoss, SaveCheckpointLoss
<1>2. CASE CallFails \/ ProcessDies \/ Tick \/ (\E t \in Instants : DeleteFrame(t))
           \/ UNCHANGED sessionVars
  BY <1>2, QuietStepLoss
<1>3. ASSUME NEW c \in plan, Release(c) \/ Drop(c) \/ Put(c) \/ Assign(c)
      PROVE  LossInv'
  BY <1>3, ReleaseLoss, DropLoss, PutLoss, AssignLoss
<1>4. ASSUME NEW throttled \in BOOLEAN, Freeze(throttled)
      PROVE  LossInv'
  BY <1>4, FreezeLoss
<1>5. ASSUME NEW c \in plan, Meta(c) \/ Own(c) \/ Seal(c) \/ Confirm(c) \/ Undo(c)
      PROVE  LossInv'
  BY <1>5, MetaLoss, OwnLoss, SealLoss, ConfirmLoss, UndoLoss
<1> QED BY <1>1, <1>2, <1>3, <1>4, <1>5 DEF SessionNext

\* The backfill leaves no session behind: a frame before the saved cursor is a
\* row's, or of a stretch too short to be a session, or was left out by a failed
\* incremental call (run_backfill_chunk saves the cursor only after every draft
\* of the chunk has its row and its frames).
THEOREM NothingLost == SessionSpec => []BackfillLosesNothing
<1>1. SessionInit => DisjointInv /\ LossInv
  BY SessionInitDisjoint, SessionInitLoss
<1>2. DisjointInv /\ LossInv /\ [SessionNext]_sessionVars => DisjointInv' /\ LossInv'
  BY SessionStepDisjoint, SessionStepLoss
<1>3. DisjointInv /\ LossInv => BackfillLosesNothing
  <2> SUFFICES ASSUME DisjointInv, LossInv, NEW t \in Shots, t < checkpoint.cursor,
                      owner[t] = 0, t \notin neglected,
                      \A r \in torn : t < session[r].start \/ session[r].end < t
               PROVE  Short(Shots, t)
    BY DEF BackfillLosesNothing, Short, TrackOf
  <2>1. Settles(t)
    BY DEF LossInv, BehindInv
  <2>2. ASSUME NEW g \in FrozenRows, In(t, session[g]) PROVE FALSE
    <3>1. t \in Nat /\ session[g].start \in Nat /\ session[g].end \in Nat
      BY SealedRow, InstantsNat DEF DisjointInv, Shots
    <3>2. g \in Sealed
      BY <2>2, <3>1 DEF Sealed, In
    <3> QED BY <2>2, <3>2 DEF LossInv, FullInv, FrozenOwned
  <2> QED BY <2>1, <2>2 DEF Settles, FrozenOwned
<1> QED BY <1>1, <1>2, <1>3, PTL DEF SessionSpec

=============================================================================
