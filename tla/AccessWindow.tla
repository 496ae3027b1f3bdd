---------------------------- MODULE AccessWindow ----------------------------
(***************************************************************************)
(* The ring of FootprintMRC, first copy (src/unnamed/part_000), where      *)
(* bufferMutex guards the ring, its head and size, and the copy into the   *)
(* member bufferSnapshot.  Feeds and resets are one critical section each. *)
(* A query (queryMrc, via calculateWindowStats) reads currentBufferSize    *)
(* without the lock, copies the ring under the lock, then runs its two     *)
(* passes over bufferSnapshot without it: those are separate steps, so     *)
(* other threads interleave between them.  bufferSnapshot is one mutable   *)
(* member shared by every caller.                                          *)
(***************************************************************************)
EXTENDS FootprintAnalyzer

CONSTANTS K, Queriers, Keys, Classes

ASSUME K \in Nat \ {0}

Access == Keys \X Classes

(* The tuple a slot holds before it is first written: circularBuffer.resize *)
(* value-initialises (KeyInt 0, ClassId 0).                                *)
DefaultRecord == <<0, 0>>

VARIABLES
  ring,            \* circularBuffer, slots 0..K-1
  head,            \* bufferHeadIndex
  size,            \* currentBufferSize
  bufferSnapshot,  \* the shared member: <<>> (cleared) or a copy of the ring
  pc,              \* the step each querier is at
  snapSize,        \* snapshotSize of the querier's calculateWindowStats
  snapHead,        \* snapshotHeadIndex
  n1,              \* nByClass of pass 1
  m1,              \* mByClass of pass 1
  stats,           \* the statistics pass 2 and the counting sort return
  oob              \* pass 2 wrote past the end of a histogram

vars == <<ring, head, size, bufferSnapshot, pc, snapSize, snapHead, n1, m1, stats, oob>>

Init ==
  /\ ring = [i \in 0..K - 1 |-> DefaultRecord]
  /\ head = 0
  /\ size = 0
  /\ bufferSnapshot = <<>>
  /\ pc = [q \in Queriers |-> "idle"]
  /\ snapSize = [q \in Queriers |-> 0]
  /\ snapHead = [q \in Queriers |-> 0]
  /\ n1 = [q \in Queriers |-> <<>>]
  /\ m1 = [q \in Queriers |-> <<>>]
  /\ stats = [q \in Queriers |-> <<>>]
  /\ oob = [q \in Queriers |-> FALSE]

querierVars == <<pc, snapSize, snapHead, n1, m1, stats, oob>>

(* A variant of Feed that increments currentBufferSize past a full ring.   *)
FeedUncappedSize(r) ==
  LET h == IF head >= K THEN 0 ELSE head
  IN  /\ ring' = [ring EXCEPT ![h] = r]
      /\ head' = (h + 1) % K
      /\ size' = size + 1
      /\ UNCHANGED <<bufferSnapshot, querierVars>>

(* feed(key, classId): one critical section.                               *)
Feed(r) ==
  LET h == IF head >= K THEN 0 ELSE head
  IN  /\ ring' = [ring EXCEPT ![h] = r]
      /\ head' = (h + 1) % K
      /\ size' = IF size < K THEN size + 1 ELSE size
      /\ UNCHANGED <<bufferSnapshot, querierVars>>

ResetWindowAnalysis ==
  /\ size' = 0
  /\ head' = 0
  /\ UNCHANGED <<ring, bufferSnapshot, querierVars>>

(* queryMrc's unlocked currentBufferSize == 0 test: an empty window        *)
(* returns at once.                                                        *)
QueryStart(q) ==
  /\ pc[q] = "idle"
  /\ pc' = [pc EXCEPT ![q] = IF size = 0 THEN "idle" ELSE "snapshot"]
  /\ UNCHANGED <<ring, head, size, bufferSnapshot, snapSize, snapHead, n1, m1, stats, oob>>

(* The locked block of calculateWindowStats: clear the shared snapshot,    *)
(* copy the ring into it if size > 0; then the early exit on no data.     *)
Snapshot(q) ==
  /\ pc[q] = "snapshot"
  /\ bufferSnapshot' = IF size > 0 THEN ring ELSE <<>>
  /\ snapSize' = [snapSize EXCEPT ![q] = size]
  /\ snapHead' = [snapHead EXCEPT ![q] = head]
  /\ pc' = [pc EXCEPT ![q] = IF size = 0 THEN "idle" ELSE "pass1"]
  /\ UNCHANGED <<ring, head, size, n1, m1, stats, oob>>

(* Pass 1: n and m of every class, read from bufferSnapshot.               *)
Pass1(q) ==
  LET w == Observed(bufferSnapshot, snapHead[q], snapSize[q], K)
  IN  /\ pc[q] = "pass1"
      /\ n1' = [n1 EXCEPT ![q] = [c \in Present(w) |-> Len(ClassKeys(w, c))]]
      /\ m1' = [m1 EXCEPT ![q] = [c \in Present(w) |-> Cardinality(ToSet(ClassKeys(w, c)))]]
      /\ pc' = [pc EXCEPT ![q] = "pass2"]
      /\ UNCHANGED <<ring, head, size, bufferSnapshot, snapSize, snapHead, stats, oob>>

(***************************************************************************)
(* Pass 2 reads bufferSnapshot again.  Each pass-1 class has a histogram  *)
(* resized to its pass-1 n; a class pass 1 did not see gets an empty one  *)
(* from operator[].  Then the counting sort over the pass-1 classes, which *)
(* drops first times above n + 1 and last times above n.                  *)
(***************************************************************************)
Pass2(q) ==
  LET w    == Observed(bufferSnapshot, snapHead[q], snapSize[q], K)
      cs   == DOMAIN n1[q] \cup Present(w)
      HistSize(c) == IF c \in DOMAIN n1[q] THEN n1[q][c] ELSE 0
      sc   == [c \in cs |-> Scan(ClassKeys(w, c), HistSize(c))]
      Stat(c) ==
        LET n == n1[q][c]
            negLast == [k \in DOMAIN sc[c].last |-> n - sc[c].last[k]]
        IN  [n |-> n, m |-> m1[q][c], hist |-> sc[c].hist,
             F |-> CountingSort(sc[c].first, 1, 1, n + 1),
             L |-> CountingSort(negLast, 0, 0, n)]
  IN  /\ pc[q] = "pass2"
      /\ stats' = [stats EXCEPT ![q] = [c \in DOMAIN n1[q] |-> Stat(c)]]
      /\ oob' = [oob EXCEPT ![q] = \E c \in cs : sc[c].oob]
      /\ pc' = [pc EXCEPT ![q] = "done"]
      /\ UNCHANGED <<ring, head, size, bufferSnapshot, snapSize, snapHead, n1, m1>>

(* The query computes footprints and MRCs from stats and returns; its     *)
(* locals go out of scope.                                                 *)
QueryReturn(q) ==
  /\ pc[q] = "done"
  /\ pc' = [pc EXCEPT ![q] = "idle"]
  /\ snapSize' = [snapSize EXCEPT ![q] = 0]
  /\ snapHead' = [snapHead EXCEPT ![q] = 0]
  /\ n1' = [n1 EXCEPT ![q] = <<>>]
  /\ m1' = [m1 EXCEPT ![q] = <<>>]
  /\ stats' = [stats EXCEPT ![q] = <<>>]
  /\ oob' = [oob EXCEPT ![q] = FALSE]
  /\ UNCHANGED <<ring, head, size, bufferSnapshot>>

Next ==
  \/ \E r \in Access : Feed(r)
  \/ ResetWindowAnalysis
  \/ \E q \in Queriers :
       \/ QueryStart(q) \/ Snapshot(q) \/ Pass1(q) \/ Pass2(q) \/ QueryReturn(q)

Spec == Init /\ [][Next]_vars

-----------------------------------------------------------------------------
TypeOK ==
  /\ ring \in [0..K - 1 -> Access \cup {DefaultRecord}]
  /\ bufferSnapshot \in {<<>>} \cup [0..K - 1 -> Access \cup {DefaultRecord}]
  /\ head \in 0..K - 1
  /\ size \in 0..K
  /\ pc \in [Queriers -> {"idle", "snapshot", "pass1", "pass2", "done"}]
  /\ snapSize \in [Queriers -> 0..K]
  /\ snapHead \in [Queriers -> 0..K - 1]
  /\ oob \in [Queriers -> BOOLEAN]

(* The window of the abstract specification, and what each query analyses: *)
(* the snapshot from its copy until it returns.                            *)
AbsWindow == Observed(ring, head, size, K)

AbsView ==
  [q \in Queriers |->
     IF pc[q] \in {"pass1", "pass2", "done"}
       THEN Observed(bufferSnapshot, snapHead[q], snapSize[q], K) ELSE <<>>]

Abs == INSTANCE AccessWindowSpec WITH window <- AbsWindow, view <- AbsView

HistogramInBounds == \A q \in Queriers : ~oob[q]

=============================================================================
