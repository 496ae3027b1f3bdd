---------------------------- MODULE RebalanceInfo ----------------------------
(***************************************************************************)
(* detail::Info of src/cachelib/allocator/RebalanceInfo.h: the record a    *)
(* rebalance strategy keeps of one allocation class at its last look, and  *)
(* the deltas it computes against the pool's current statistics.          *)
(*                                                                         *)
(* The strategies that call it are not in the repository, so the calls     *)
(* come in any order, between any changes of the statistics.  The          *)
(* statistics of the class are counters the cache's threads advance; the   *)
(* hit counts are sums of thread-local counters and drop when a thread     *)
(* goes out of scope (the comment of deltaHits).  Counters are unsigned    *)
(* integers (uint64_t, and unsigned int for the hold-offs), all kept      *)
(* modulo 2^Width.                                                         *)
(*                                                                         *)
(* Abstracted: the second-last-tail, warm and hot access counters behave   *)
(* as the tail and cold ones (their getters and updates are the same       *)
(* lines with another field), and decayedAccuTailHits is left out: with    *)
(* the default decayFactor 0.0 that updateTailHits and                     *)
(* getDecayedMarginalHits take, it stays 0.                                *)
(***************************************************************************)
EXTENDS Integers

CONSTANTS
  Width,              \* bits of the counters (64, and 32 for unsigned int)
  NumHoldOffRounds,   \* Info::kNumHoldOffRounds (10)
  MaxSlabs,           \* slabs the class may hold
  MaxEvents           \* bound on the changes of the statistics

ASSUME Width \in Nat \ {0} /\ NumHoldOffRounds \in Nat \ {0}
       /\ MaxSlabs \in Nat /\ MaxEvents \in Nat

Mod == 2 ^ Width

(* Unsigned subtraction.                                                   *)
USub(a, b) == (a - b + Mod) % Mod

VARIABLES
  stats,   \* the class's counters in PoolStats
  info,    \* the Info record
  events,  \* changes of the statistics so far
  ev,      \* per snapshot: events of its counter since it was taken
  lost     \* per snapshot: hits dropped by exiting threads since then

vars == <<stats, info, events, ev, lost>>

(* The snapshots the update functions take, and what each one counts.    *)
Snaps == {"hits", "toggle", "requests", "decay", "failures", "tail", "cold"}

Zero == [s \in Snaps |-> 0]

Init ==
  /\ stats = [hits |-> 0, toggle |-> 0, allocs |-> 0, fails |-> 0,
              evicts |-> 0, slabs |-> 0, tail |-> 0, cold |-> 0]
  /\ info = [nSlabs |-> 0, evictions |-> 0, allocFailures |-> 0,
             holdOffRemaining |-> 0, receiverHoldOffRemaining |-> 0,
             victimHoldOffRemaining |-> 0, hits |-> 0, hitsToggle |-> 0,
             accuTailHits |-> 0, accuColdHits |-> 0, numRequests |-> 0,
             numRequestsAtLastDecay |-> 0, numAllocations |-> 0]
  /\ events = 0 /\ ev = Zero /\ lost = Zero

-----------------------------------------------------------------------------
(* The getters.                                                            *)

(* A variant of deltaHits without the test for a decreased count.          *)
DeltaHitsUnguarded == USub(stats.hits, info.hits)

(* deltaHits: hits since updateHits; a decreased sum counts as 0.         *)
DeltaHits == IF stats.hits <= info.hits THEN 0 ELSE stats.hits - info.hits

DeltaHitsToggle ==
  IF stats.toggle <= info.hitsToggle THEN 0 ELSE stats.toggle - info.hitsToggle

TotalRequests == (stats.hits + stats.allocs) % Mod

(* deltaRequests and deltaRequestsSinceLastDecay: hits and allocation      *)
(* attempts since updateRequests, and since updateTailHits.               *)
DeltaRequests ==
  IF TotalRequests > info.numRequests THEN TotalRequests - info.numRequests ELSE 0

DeltaRequestsSinceLastDecay ==
  IF TotalRequests > info.numRequestsAtLastDecay
    THEN TotalRequests - info.numRequestsAtLastDecay ELSE 0

DeltaAllocFailures ==
  IF stats.fails <= info.allocFailures THEN 0 ELSE stats.fails - info.allocFailures

(* getDeltaSlabs, getDeltaEvictions, getDeltaAllocations: signed.          *)
GetDeltaSlabs == stats.slabs - info.nSlabs
GetDeltaEvictions == stats.evicts - info.evictions
GetDeltaAllocations == stats.allocs - info.numAllocations

(* getMarginalHits: tail hits since updateTailHits per tail slab, the      *)
(* unsigned quotient; getColdHits (and warm, hot, second-last tail).       *)
GetMarginalHits(tailSlabCnt) ==
  LET trueTailSize == IF tailSlabCnt > stats.slabs THEN stats.slabs ELSE tailSlabCnt
  IN  USub(stats.tail, info.accuTailHits) \div (IF trueTailSize > 0 THEN trueTailSize ELSE 1)

GetColdHits == USub(stats.cold, info.accuColdHits)

(* deltaHitsPerSlab and deltaHitsTogglePerSlab: the deltas per slab of    *)
(* the class (a division by zero for a class without slabs).               *)
DeltaHitsPerSlab == DeltaHits \div stats.slabs
DeltaHitsTogglePerSlab == DeltaHitsToggle \div stats.slabs

(* projectedDeltaHitsPerSlab and its toggle twin: the deltas per slab once *)
(* a slab is gone, UINT64_MAX for a class with one slab.  The slab count   *)
(* is unsigned, so for 0 slabs nSlab - 1 wraps and the quotient is 0.      *)
ProjectedDeltaHitsPerSlab ==
  IF stats.slabs = 1 THEN Mod - 1 ELSE DeltaHits \div USub(stats.slabs, 1)

ProjectedDeltaHitsTogglePerSlab ==
  IF stats.slabs = 1 THEN Mod - 1 ELSE DeltaHitsToggle \div USub(stats.slabs, 1)

-----------------------------------------------------------------------------
(* The cache's threads change the statistics.                              *)

Count ==
  /\ events < MaxEvents /\ events' = events + 1
  /\ UNCHANGED info

(* A hit, in the tail, among the cold items or elsewhere, and maybe the    *)
(* first hit since the item's access bit was cleared (a toggle).          *)
Hit(where, toggle) ==
  /\ Count
  /\ stats' = [stats EXCEPT !.hits = (@ + 1) % Mod,
                            !.toggle = IF toggle THEN (@ + 1) % Mod ELSE @,
                            !.tail = IF where = "tail" THEN (@ + 1) % Mod ELSE @,
                            !.cold = IF where = "cold" THEN (@ + 1) % Mod ELSE @]
  /\ ev' = [s \in Snaps |-> IF \/ s \in {"hits", "requests", "decay"}
                                \/ (s = "toggle" /\ toggle)
                                \/ s = where
                             THEN ev[s] + 1 ELSE ev[s]]
  /\ UNCHANGED lost

(* A thread goes out of scope: its k hits leave numHitsForClass.          *)
ThreadExit(k) ==
  /\ Count
  /\ k <= stats.hits
  /\ stats' = [stats EXCEPT !.hits = @ - k]
  /\ lost' = [s \in Snaps |-> IF s \in {"hits", "requests", "decay"}
                               THEN lost[s] + k ELSE lost[s]]
  /\ UNCHANGED ev

(* An allocation attempt that succeeds, evicts, or fails.                  *)
Alloc(outcome) ==
  /\ Count
  /\ stats' = [stats EXCEPT !.allocs = (@ + 1) % Mod,
                            !.fails = IF outcome = "fail" THEN (@ + 1) % Mod ELSE @,
                            !.evicts = IF outcome = "evict" THEN (@ + 1) % Mod ELSE @]
  /\ ev' = [s \in Snaps |-> IF s \in {"requests", "decay"} \/ (s = "failures" /\ outcome = "fail")
                             THEN ev[s] + 1 ELSE ev[s]]
  /\ UNCHANGED lost

(* A slab moves to or from the class.                                      *)
SlabMove(d) ==
  /\ Count
  /\ stats.slabs + d \in 0..MaxSlabs
  /\ stats' = [stats EXCEPT !.slabs = @ + d]
  /\ UNCHANGED <<ev, lost>>

-----------------------------------------------------------------------------
(* The strategy's calls that change the record.                            *)

Reset(S) ==
  /\ ev' = [s \in Snaps |-> IF s \in S THEN 0 ELSE ev[s]]
  /\ lost' = [s \in Snaps |-> IF s \in S THEN 0 ELSE lost[s]]

Call(i) == info' = i /\ UNCHANGED <<stats, events>>

UpdateHits ==
  Call([info EXCEPT !.hits = stats.hits]) /\ Reset({"hits"})

UpdateHitsToggle ==
  Call([info EXCEPT !.hitsToggle = stats.toggle]) /\ Reset({"toggle"})

UpdateAllocations ==
  Call([info EXCEPT !.numAllocations = stats.allocs]) /\ UNCHANGED <<ev, lost>>

UpdateRequests ==
  Call([info EXCEPT !.numRequests = TotalRequests]) /\ Reset({"requests"})

(* updateTailHits: the tail and second-last-tail records and the request   *)
(* count of the last decay.                                                *)
UpdateTailHits ==
  /\ Call([info EXCEPT !.accuTailHits = stats.tail,
                       !.numRequestsAtLastDecay = TotalRequests])
  /\ Reset({"decay", "tail"})

(* A variant of updateRecord with its commented-out line: it also records  *)
(* the tail hits.                                                          *)
UpdateRecordWithTail ==
  /\ Call([info EXCEPT !.nSlabs = stats.slabs, !.evictions = stats.evicts,
                       !.accuTailHits = stats.tail,
                       !.accuColdHits = stats.cold, !.allocFailures = stats.fails])
  /\ Reset({"failures", "cold"})

(* updateRecord: slabs, evictions, cold (warm, hot) accesses and           *)
(* allocation failures; not the tail hits.                                 *)
UpdateRecord ==
  /\ Call([info EXCEPT !.nSlabs = stats.slabs, !.evictions = stats.evicts,
                       !.accuColdHits = stats.cold, !.allocFailures = stats.fails])
  /\ Reset({"failures", "cold"})

(* The hold-off counters.  reduceHoldOff requires an active hold-off      *)
(* (XDCHECK); the two decrement functions change nothing at 0.            *)
StartHoldOff == Call([info EXCEPT !.holdOffRemaining = NumHoldOffRounds]) /\ UNCHANGED <<ev, lost>>

StartVictimHoldOff ==
  Call([info EXCEPT !.victimHoldOffRemaining = NumHoldOffRounds]) /\ UNCHANGED <<ev, lost>>

StartReceiverHoldOff ==
  Call([info EXCEPT !.receiverHoldOffRemaining = NumHoldOffRounds]) /\ UNCHANGED <<ev, lost>>

ResetHoldOff == Call([info EXCEPT !.holdOffRemaining = 0]) /\ UNCHANGED <<ev, lost>>

(* A variant of reduceHoldOff without its XDCHECK, as a release build runs. *)
ReduceHoldOffUnchecked ==
  Call([info EXCEPT !.holdOffRemaining = USub(@, 1)]) /\ UNCHANGED <<ev, lost>>

ReduceHoldOff ==
  /\ info.holdOffRemaining > 0
  /\ Call([info EXCEPT !.holdOffRemaining = @ - 1]) /\ UNCHANGED <<ev, lost>>

DecrementReceiverHoldOff ==
  /\ info.receiverHoldOffRemaining > 0
  /\ Call([info EXCEPT !.receiverHoldOffRemaining = @ - 1]) /\ UNCHANGED <<ev, lost>>

DecrementVictimHoldOff ==
  /\ info.victimHoldOffRemaining > 0
  /\ Call([info EXCEPT !.victimHoldOffRemaining = @ - 1]) /\ UNCHANGED <<ev, lost>>

Next ==
  \/ \E w \in {"tail", "cold", "other"}, t \in BOOLEAN : Hit(w, t)
  \/ \E k \in 1..MaxEvents : ThreadExit(k)
  \/ \E o \in {"ok", "evict", "fail"} : Alloc(o)
  \/ \E d \in {-1, 1} : SlabMove(d)
  \/ UpdateHits \/ UpdateHitsToggle \/ UpdateAllocations \/ UpdateRequests
  \/ UpdateTailHits \/ UpdateRecord
  \/ StartHoldOff \/ StartVictimHoldOff \/ StartReceiverHoldOff \/ ResetHoldOff
  \/ ReduceHoldOff \/ DecrementReceiverHoldOff \/ DecrementVictimHoldOff

Spec == Init /\ [][Next]_vars

-----------------------------------------------------------------------------
TypeOK ==
  /\ \A f \in DOMAIN stats : stats[f] \in 0..(Mod - 1)
  /\ \A f \in {"holdOffRemaining", "receiverHoldOffRemaining", "victimHoldOffRemaining"} :
       info[f] \in 0..NumHoldOffRounds
  /\ events \in 0..MaxEvents

(***************************************************************************)
(* Each delta counts the events of its counter since the update that took *)
(* its snapshot: the guarded ones less the hits that exiting threads took  *)
(* out of the sums, and 0 when more were taken out than happened, so they  *)
(* never report more than happened; the unguarded tail (per tail slab) and *)
(* cold counts exactly, since their counters never drop.  This holds       *)
(* whatever order the updates, hits, allocations and thread exits come in, *)
(* and although updateTailHits and updateRecord snapshot different fields. *)
(***************************************************************************)
Counted(s) == IF ev[s] > lost[s] THEN ev[s] - lost[s] ELSE 0

DeltasCountSinceSnapshot ==
  /\ DeltaHits = Counted("hits")
  /\ DeltaHitsToggle = Counted("toggle")
  /\ DeltaRequests = Counted("requests")
  /\ DeltaRequestsSinceLastDecay = Counted("decay")
  /\ DeltaAllocFailures = Counted("failures")
  /\ GetMarginalHits(1) = ev["tail"]
  /\ GetColdHits = ev["cold"]

====
