------------------------ MODULE AccessWindowUnlocked ------------------------
(***************************************************************************)
(* The ring of FootprintMRC, second copy (src/unnamed/part_000 from line   *)
(* 970): no mutex at all.  feed is a sequence of plain loads and stores    *)
(* that other feeders and queries interleave with: load the head, store    *)
(* the record (a two-field tuple: key, then class), store the new head,    *)
(* test the size and increment it.  calculateWindowStats captures size and *)
(* head and runs both passes over the live ring.  The data races are       *)
(* undefined behaviour; the model lets each racing load see any value a    *)
(* store of the interleaving left, which is what the build produces for   *)
(* word-sized fields.  The passes are single steps, so every behaviour of  *)
(* the model is one of the code, not the converse.                         *)
(***************************************************************************)
EXTENDS FootprintAnalyzer

CONSTANTS K, Feeders, Queriers, Keys, Classes

ASSUME K \in Nat \ {0}

Access == Keys \X Classes

(* The value-initialised tuple circularBuffer.resize puts in every slot.  *)
DefaultRecord == <<0, 0>>

VARIABLES
  ring, head, size,   \* circularBuffer, bufferHeadIndex, currentBufferSize
  fpc,                \* the step each feeder is at
  cur,                \* feed's currentHead
  rec,                \* the (keyInt, classId) feed is storing
  loaded,             \* the currentBufferSize the increment loaded
  qpc,                \* the step each querier is at
  capSize, capHead,   \* capturedBufferSize, capturedHeadIndex
  n1,                 \* nByClass of pass 1
  oob,                \* pass 2 wrote past the end of a histogram
  seen,               \* the records pass 2 read (history)
  fed                 \* every record a feed was called with (history)

vars == <<ring, head, size, fpc, cur, rec, loaded, qpc, capSize, capHead, n1, oob, seen, fed>>
feederVars == <<fpc, cur, rec, loaded>>
querierVars == <<qpc, capSize, capHead, n1, oob, seen>>

Init ==
  /\ ring = [i \in 0..K - 1 |-> DefaultRecord]
  /\ head = 0
  /\ size = 0
  /\ fpc = [f \in Feeders |-> "idle"]
  /\ cur = [f \in Feeders |-> 0]
  /\ rec = [f \in Feeders |-> DefaultRecord]
  /\ loaded = [f \in Feeders |-> 0]
  /\ qpc = [q \in Queriers |-> "idle"]
  /\ capSize = [q \in Queriers |-> 0]
  /\ capHead = [q \in Queriers |-> 0]
  /\ n1 = [q \in Queriers |-> <<>>]
  /\ oob = [q \in Queriers |-> FALSE]
  /\ seen = [q \in Queriers |-> {}]
  /\ fed = {}

(* feed: load bufferHeadIndex, resetting it if out of range.               *)
FeedLoadHead(f, r) ==
  LET h == IF head >= K THEN 0 ELSE head
  IN  /\ fpc[f] = "idle"
      /\ cur' = [cur EXCEPT ![f] = h]
      /\ head' = h
      /\ rec' = [rec EXCEPT ![f] = r]
      /\ fed' = fed \cup {r}
      /\ fpc' = [fpc EXCEPT ![f] = "storeKey"]
      /\ UNCHANGED <<ring, size, loaded, querierVars>>

(* circularBuffer[currentHead] = make_tuple(keyInt, classId), one field at *)
(* a time.                                                                 *)
FeedStoreKey(f) ==
  /\ fpc[f] = "storeKey"
  /\ ring' = [ring EXCEPT ![cur[f]] = <<rec[f][1], @[2]>>]
  /\ fpc' = [fpc EXCEPT ![f] = "storeClass"]
  /\ UNCHANGED <<head, size, cur, rec, loaded, querierVars, fed>>

FeedStoreClass(f) ==
  /\ fpc[f] = "storeClass"
  /\ ring' = [ring EXCEPT ![cur[f]] = <<@[1], rec[f][2]>>]
  /\ fpc' = [fpc EXCEPT ![f] = "storeHead"]
  /\ UNCHANGED <<head, size, cur, rec, loaded, querierVars, fed>>

FeedStoreHead(f) ==
  /\ fpc[f] = "storeHead"
  /\ head' = (cur[f] + 1) % K
  /\ fpc' = [fpc EXCEPT ![f] = "testSize"]
  /\ UNCHANGED <<ring, size, cur, rec, loaded, querierVars, fed>>

(* if (currentBufferSize < circularBufferMaxLen): the load the increment   *)
(* may reuse.                                                              *)
FeedTestSize(f) ==
  /\ fpc[f] = "testSize"
  /\ loaded' = [loaded EXCEPT ![f] = size]
  /\ fpc' = [fpc EXCEPT ![f] = IF size < K THEN "increment" ELSE "idle"]
  /\ UNCHANGED <<ring, head, size, cur, rec, querierVars, fed>>

(* currentBufferSize++: a store of the tested value plus one, or of a      *)
(* fresh load plus one.                                                    *)
FeedIncrement(f) ==
  /\ fpc[f] = "increment"
  /\ \/ size' = loaded[f] + 1
     \/ size' = size + 1
  /\ fpc' = [fpc EXCEPT ![f] = "idle"]
  /\ UNCHANGED <<ring, head, cur, rec, loaded, querierVars, fed>>

ResetWindowAnalysis ==
  /\ size' = 0
  /\ head' = 0
  /\ UNCHANGED <<ring, feederVars, querierVars, fed>>

(* queryMrc's currentBufferSize == 0 test.                                 *)
QueryStart(q) ==
  /\ qpc[q] = "idle"
  /\ qpc' = [qpc EXCEPT ![q] = IF size = 0 THEN "idle" ELSE "capture"]
  /\ UNCHANGED <<ring, head, size, feederVars, capSize, capHead, n1, oob, seen, fed>>

(* calculateWindowStats: capture size and head, no lock.                   *)
Capture(q) ==
  /\ qpc[q] = "capture"
  /\ capSize' = [capSize EXCEPT ![q] = size]
  /\ capHead' = [capHead EXCEPT ![q] = head]
  /\ qpc' = [qpc EXCEPT ![q] = "pass1"]
  /\ UNCHANGED <<ring, head, size, feederVars, n1, oob, seen, fed>>

(* Pass 1 over the live ring: n per class.                                 *)
Pass1(q) ==
  LET w == Observed(ring, capHead[q], capSize[q], K)
  IN  /\ qpc[q] = "pass1"
      /\ n1' = [n1 EXCEPT ![q] = [c \in Present(w) |-> Len(ClassKeys(w, c))]]
      /\ qpc' = [qpc EXCEPT ![q] = "pass2"]
      /\ UNCHANGED <<ring, head, size, feederVars, capSize, capHead, oob, seen, fed>>

(* Pass 2 over the live ring again, with histograms of the pass-1 sizes   *)
(* (empty for a class pass 1 did not see).                                 *)
Pass2(q) ==
  LET w  == Observed(ring, capHead[q], capSize[q], K)
      cs == DOMAIN n1[q] \cup Present(w)
      HistSize(c) == IF c \in DOMAIN n1[q] THEN n1[q][c] ELSE 0
  IN  /\ qpc[q] = "pass2"
      /\ oob' = [oob EXCEPT ![q] = \E c \in cs : Scan(ClassKeys(w, c), HistSize(c)).oob]
      /\ seen' = [seen EXCEPT ![q] = ToSet(w)]
      /\ qpc' = [qpc EXCEPT ![q] = "done"]
      /\ UNCHANGED <<ring, head, size, feederVars, capSize, capHead, n1, fed>>

(* The query returns; its locals go out of scope.                          *)
QueryReturn(q) ==
  /\ qpc[q] = "done"
  /\ qpc' = [qpc EXCEPT ![q] = "idle"]
  /\ capSize' = [capSize EXCEPT ![q] = 0]
  /\ capHead' = [capHead EXCEPT ![q] = 0]
  /\ n1' = [n1 EXCEPT ![q] = <<>>]
  /\ oob' = [oob EXCEPT ![q] = FALSE]
  /\ seen' = [seen EXCEPT ![q] = {}]
  /\ UNCHANGED <<ring, head, size, feederVars, fed>>

Next ==
  \/ \E f \in Feeders :
       \/ \E r \in Access : FeedLoadHead(f, r)
       \/ FeedStoreKey(f) \/ FeedStoreClass(f) \/ FeedStoreHead(f)
       \/ FeedTestSize(f) \/ FeedIncrement(f)
  \/ ResetWindowAnalysis
  \/ \E q \in Queriers :
       \/ QueryStart(q) \/ Capture(q) \/ Pass1(q) \/ Pass2(q) \/ QueryReturn(q)

Spec == Init /\ [][Next]_vars

-----------------------------------------------------------------------------
(***************************************************************************)
(* The comment on feed: "memory-safe even under concurrent access".  Pass *)
(* 2 of calculateWindowStats never writes past the end of a reuse          *)
(* histogram while feeds run.                                              *)
(***************************************************************************)
HistogramInBounds == \A q \in Queriers : ~oob[q]

(***************************************************************************)
(* spec.md 5: readers never see torn records; the window holds the        *)
(* accesses fed.  Every record a query's pass reads is one some feed       *)
(* stored.                                                                 *)
(***************************************************************************)
NoPhantomRecords == \A q \in Queriers : seen[q] \subseteq fed
=============================================================================
