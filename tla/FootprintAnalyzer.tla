------------------------- MODULE FootprintAnalyzer -------------------------
(***************************************************************************)
(* The footprint analyser of FootprintMRC (src/unnamed/part_000, the copy *)
(* guarded by bufferMutex): the window statistics of calculateWindowStats, *)
(* the O(n) footprint of calculateFpValues, the per-class miss-ratio curve *)
(* of queryMrc and the lookup _getMissRatio.  All of them are pure, so     *)
(* they are operators over a window: a sequence of accesses <<key, class>> *)
(* in logical order, oldest first.                                         *)
(*                                                                         *)
(* Numbers.  The code computes footprints and miss ratios in double.       *)
(* Every footprint is m - S / d with integers S, d (d = n - w + 1 > 0), so *)
(* it is kept exactly as the fraction [num |-> m * d - S, den |-> d]; a    *)
(* miss ratio is (n - hits) / n, kept as its numerator "misses", the       *)
(* number of misses over the n accesses of the class.                      *)
(***************************************************************************)
EXTENDS Naturals, Sequences, SequencesExt

(* The classes that occur in window w.                                     *)
Present(w) == {w[i][2] : i \in DOMAIN w}

(* The keys of class c in w, in logical order: the class-local positions   *)
(* 0, 1, ... of calculateWindowStats are the indices 1, 2, ... minus one.  *)
ClassKeys(w, c) ==
  LET IsOfClass(r) == r[2] = c
      sub == SelectSeq(w, IsOfClass)
  IN  [i \in 1..Len(sub) |-> sub[i][1]]

(***************************************************************************)
(* The records of the ring buf (slots 0..maxLen-1) a pass of               *)
(* calculateWindowStats visits, oldest first: size and head clamped, start *)
(* 0 unless full, then slot (start + i) % maxLen for i < sz, stopping at   *)
(* the first slot past the end of buf (an empty buf yields nothing).       *)
(***************************************************************************)
Observed(buf, hd, sz, maxLen) ==
  LET s     == IF sz > maxLen THEN maxLen ELSE sz
      h     == IF hd >= maxLen THEN 0 ELSE hd
      start == IF s < maxLen THEN 0 ELSE h
      Slot(i) == (start + i - 1) % maxLen
      len   == IF \A i \in 1..s : Slot(i) \in DOMAIN buf THEN s
               ELSE CHOOSE l \in 0..(s - 1) : Slot(l + 1) \notin DOMAIN buf
                                           /\ \A i \in 1..l : Slot(i) \in DOMAIN buf
  IN  [i \in 1..len |-> buf[Slot(i)]]

(***************************************************************************)
(* Pass 2 of calculateWindowStats for one class: one step per access.      *)
(* i is the class-local index; first and last map a key to its first and  *)
(* last local index (emplace never overwrites, the reuse branch updates    *)
(* last); hist is the reuse-time histogram, a vector resized to the n of  *)
(* pass 1.  A reuse time outside hist is a write past the vector's end:   *)
(* the model drops the write and records it in oob.                        *)
(***************************************************************************)
ScanStep(st, k) ==
  LET i     == st.i
      reuse == k \in DOMAIN st.last
      t     == IF reuse THEN i - st.last[k] ELSE 0
  IN  [i     |-> i + 1,
       first |-> IF k \in DOMAIN st.first THEN st.first ELSE st.first @@ (k :> i),
       last  |-> (k :> i) @@ st.last,
       hist  |-> IF reuse /\ t \in DOMAIN st.hist
                   THEN [st.hist EXCEPT ![t] = @ + 1] ELSE st.hist,
       oob   |-> st.oob \/ (reuse /\ t \notin DOMAIN st.hist)]

(* A variant of Scan that sizes the histogram one slot short.              *)
ScanHistOneShort(ks, histSize) ==
  FoldLeft(ScanStep,
           [i |-> 0, first |-> <<>>, last |-> <<>>,
            hist |-> [t \in 0..histSize - 2 |-> 0], oob |-> FALSE],
           ks)

(* Pass 2 over the keys ks of one class with a histogram of size histSize. *)
Scan(ks, histSize) ==
  FoldLeft(ScanStep,
           [i |-> 0, first |-> <<>>, last |-> <<>>,
            hist |-> [t \in 0..histSize - 1 |-> 0], oob |-> FALSE],
           ks)

(* Counting sort of calculateWindowStats: the values v[k] + off of every   *)
(* key, each value in lo..hi, as a non-decreasing sequence.                *)
CountingSort(v, off, lo, hi) ==
  LET count(x) == Cardinality({k \in DOMAIN v : v[k] + off = x})
  IN  FlattenSeq([j \in 1..(hi - lo + 1) |-> [c \in 1..count(lo + j - 1) |-> lo + j - 1]])

(* A variant of ClassStats that sorts the 0-based first access times.      *)
ClassStatsZeroBasedFirst(w, c) ==
  LET ks == ClassKeys(w, c)
      n  == Len(ks)
      sc == Scan(ks, n)
      negLast == [k \in DOMAIN sc.last |-> n - sc.last[k]]
  IN  [n |-> n, m |-> Cardinality(ToSet(ks)), hist |-> sc.hist,
       F |-> CountingSort(sc.first, 0, 0, n), L |-> CountingSort(negLast, 0, 0, n)]

(* The statistics of class c in w: n, m, the scan, F (first access,       *)
(* 1-indexed) and L (n minus the last local index), both sorted.           *)
ClassStats(w, c) ==
  LET ks == ClassKeys(w, c)
      n  == Len(ks)
      sc == Scan(ks, n)
      negLast == [k \in DOMAIN sc.last |-> n - sc.last[k]]
  IN  [n    |-> n,
       m    |-> Cardinality(ToSet(ks)),
       hist |-> sc.hist,
       F    |-> CountingSort(sc.first, 1, 1, n + 1),
       L    |-> CountingSort(negLast, 0, 0, n)]

(***************************************************************************)
(* calculateFpValues.  Suffix sums SumTr(t), SumR(t) of t * R[t] and R[t]  *)
(* over reuse times t..n-1; then for w = 1..n two pointers move past the   *)
(* values <= w of F and L, taking them out of the running sums and counts, *)
(* and fp[w] = m - (Fw + Lw + Rw) / (n - w + 1).  fp[0] stays 0.           *)
(***************************************************************************)
RECURSIVE Advance(_, _, _)
Advance(s, p, w) ==
  IF p.ptr < Len(s) /\ s[p.ptr + 1] <= w
    THEN Advance(s, [ptr |-> p.ptr + 1, sum |-> p.sum - s[p.ptr + 1],
                     cnt |-> p.cnt - 1], w)
    ELSE p

FpValues(st) ==
  LET n    == st.n
      maxT == n - 1
      R(t) == IF t \in DOMAIN st.hist /\ t > 0 /\ t <= maxT THEN st.hist[t] ELSE 0
      SumTr(t) == MapThenSumSet(LAMBDA u : u * R(u), t..maxT)
      SumR(t)  == MapThenSumSet(R, t..maxT)
      Start(s) == [ptr |-> 0, sum |-> MapThenSumSet(LAMBDA i : s[i], DOMAIN s),
                   cnt |-> Len(s)]
      RECURSIVE Loop(_, _, _, _)
      Loop(w, pf, pl, fp) ==
        IF w > n THEN fp
        ELSE LET f  == Advance(st.F, pf, w)
                 l  == Advance(st.L, pl, w)
                 fW == f.sum - w * f.cnt
                 lW == l.sum - w * l.cnt
                 rW == IF w + 1 <= maxT THEN SumTr(w + 1) - w * SumR(w + 1) ELSE 0
                 d  == n - w + 1
                 v  == IF d = 0 THEN [num |-> st.m, den |-> 1]
                                ELSE [num |-> st.m * d - (fW + lW + rW), den |-> d]
             IN  Loop(w + 1, f, l, fp @@ (w :> v))
  IN  IF n = 0 THEN <<>>
      ELSE Loop(1, Start(st.F), Start(st.L), (0 :> [num |-> 0, den |-> 1]))

(***************************************************************************)
(* The statistics of class c as the unsynchronised copy's                  *)
(* calculateWindowStats returns them: the first and last local index of    *)
(* each key as maps, not yet sorted.                                       *)
(***************************************************************************)
ClassMaps(w, c) ==
  LET ks == ClassKeys(w, c)
      sc == Scan(ks, Len(ks))
  IN  [n |-> Len(ks), m |-> Cardinality(ToSet(ks)), hist |-> sc.hist,
       first |-> sc.first, last |-> sc.last]

(* A variant of FpValuesFromMaps that takes n - last - 1 for the last      *)
(* access times.                                                           *)
FpValuesFromMapsLastOffByOne(st) ==
  LET F == SetToSortSeq({st.first[k] + 1 : k \in DOMAIN st.first}, <)
      L == SetToSortSeq({st.n - st.last[k] - 1 : k \in DOMAIN st.last}, <)
  IN  IF st.n = 0 THEN <<>>
      ELSE FpValues([n |-> st.n, m |-> st.m, hist |-> st.hist, F |-> F, L |-> L])

(***************************************************************************)
(* calculateFpValues of the unsynchronised copy: the same suffix sums and  *)
(* two-pointer loop, over first + 1 and n - last built from the maps and   *)
(* put in order by std::sort.  The values of each are distinct (they are   *)
(* distinct access positions), so the sorted vector is the sorted set.     *)
(***************************************************************************)
FpValuesFromMaps(st) ==
  LET F == SetToSortSeq({st.first[k] + 1 : k \in DOMAIN st.first}, <)
      L == SetToSortSeq({st.n - st.last[k] : k \in DOMAIN st.last}, <)
  IN  IF st.n = 0 THEN <<>>
      ELSE FpValues([n |-> st.n, m |-> st.m, hist |-> st.hist, F |-> F, L |-> L])

(* The sum of two fractions.                                               *)
AddFrac(a, b) == [num |-> a.num * b.den + b.num * a.den, den |-> a.den * b.den]

(* A variant of QueryFootprint that indexes fp by the cache size without  *)
(* clamping it to the class's n.                                           *)
QueryFootprintNoClamp(w, sizes) ==
  LET fps == [c \in Present(w) |-> FpValues(ClassStats(w, c))]
      At(c, s) == IF s \in DOMAIN fps[c] THEN fps[c][s] ELSE [num |-> 0, den |-> 1]
  IN  [i \in DOMAIN sizes |->
         FoldFunction(AddFrac, [num |-> 0, den |-> 1], [c \in Present(w) |-> At(c, sizes[i])])]

(***************************************************************************)
(* queryMrc(cacheSizes): zeros for an empty window; otherwise, for each    *)
(* cache size, the sum over the classes of the window of fp(min(size, n)) *)
(* (fp has n + 1 entries, fp[0] = 0, so the index is always inside).       *)
(***************************************************************************)
QueryFootprint(w, sizes) ==
  LET fps == [c \in Present(w) |-> FpValues(ClassStats(w, c))]
      At(c, s) == LET x == IF s < Len(ClassKeys(w, c)) THEN s ELSE Len(ClassKeys(w, c))
                  IN  IF x \in DOMAIN fps[c] THEN fps[c][x] ELSE [num |-> 0, den |-> 1]
  IN  [i \in DOMAIN sizes |->
         FoldFunction(AddFrac, [num |-> 0, den |-> 1], [c \in Present(w) |-> At(c, sizes[i])])]

(***************************************************************************)
(* queryMrc: for slab counts 0..maxSlabs the misses of the class when it   *)
(* holds s slabs of aps objects: a reuse at time t is a hit when           *)
(* fp(t) < s * aps; with no capacity every access misses.  Clamping the    *)
(* ratio to [0, 1] leaves n - hits unchanged, as 0 <= hits <= n.           *)
(***************************************************************************)
MrcPoints(st, aps, maxSlabs) ==
  LET fp == FpValues(st)
      FpAt(t) == IF t > 0 /\ t \in DOMAIN fp THEN fp[t] ELSE [num |-> 0, den |-> 1]
      Hits(cap) == MapThenSumSet(LAMBDA t : st.hist[t],
                     {t \in DOMAIN st.hist : st.hist[t] > 0 /\ FpAt(t).num < cap * FpAt(t).den})
  IN  [s \in 0..maxSlabs |->
         IF st.n > 0 /\ s * aps > 0 THEN st.n - Hits(s * aps) ELSE st.n]

(* queryMrc: one entry per class with a non-zero allocsPerSlab that occurs *)
(* in the window; an empty window gives the empty map.                     *)
QueryMrc(w, aps, maxSlabs) ==
  LET cs == {c \in DOMAIN aps : aps[c] # 0 /\ c \in Present(w)}
  IN  [c \in cs |-> LET st == ClassStats(w, c)
                    IN  [points |-> MrcPoints(st, aps[c], maxSlabs), n |-> st.n]]

(***************************************************************************)
(* _getMissRatio, as the misses over d.n accesses: 1.0 for no slabs, the   *)
(* profiled point, the last profiled point past the end (0.0 when nothing  *)
(* was profiled) and 1.0 for a hole.                                       *)
(***************************************************************************)
GetMisses(d, s) ==
  LET dom == DOMAIN d.points
      top == IF dom = {} THEN 0 ELSE Max(dom)
  IN  CASE s = 0        -> d.n
        [] s \in dom    -> d.points[s]
        [] s > top      -> IF top \in dom THEN d.points[top] ELSE 0
        [] OTHER        -> d.n

-----------------------------------------------------------------------------
(***************************************************************************)
(* Reference definition of the footprint (spec.md 3): the mean number of   *)
(* distinct keys over the n - w + 1 windows of length w of the keys ks.    *)
(***************************************************************************)
RefFp(ks, w) ==
  LET n == Len(ks)
  IN  [num |-> MapThenSumSet(LAMBDA i : Cardinality({ks[j] : j \in i..(i + w - 1)}),
                             1..(n - w + 1)),
       den |-> n - w + 1]
=============================================================================
