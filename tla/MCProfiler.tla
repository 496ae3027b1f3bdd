----------------------------- MODULE MCProfiler -----------------------------
(***************************************************************************)
(* The analyser and the solver of FootprintMRC checked on every window the *)
(* access window can hold: the window is driven by the feeds and resets of *)
(* AccessWindowSpec, which the ring of AccessWindow implements.            *)
(***************************************************************************)
EXTENDS Solver

CONSTANTS K, Keys, Classes, MaxSlabs

VARIABLES window, view

W == INSTANCE AccessWindowSpec WITH Queriers <- {}

vars == <<window, view>>

Init == W!AbsInit

Next ==
  \/ \E r \in W!Access : W!AbsFeed(r)
  \/ W!AbsReset

Spec == Init /\ [][Next]_vars

TypeOK == W!AbsTypeOK

(***************************************************************************)
(* The O(n) footprint of calculateFpValues equals, for every class and     *)
(* every window length, the mean number of distinct keys over all windows  *)
(* of that length; in both copies: fed by the counting sort of the locked  *)
(* copy's calculateWindowStats, and by the std::sort of the unlocked       *)
(* copy's calculateFpValues over the maps of first and last accesses.      *)
(***************************************************************************)
FpMatchesReference ==
  \A c \in Present(window) :
    \A st \in {ClassStats(window, c)}, ks \in {ClassKeys(window, c)} :
      \A fp \in {FpValues(st), FpValuesFromMaps(ClassMaps(window, c))} :
        \A w \in 1..st.n :
          fp[w].num * RefFp(ks, w).den = RefFp(ks, w).num * fp[w].den

(* The cache sizes 0..K + 1 asked of queryMrc(cacheSizes), in order.       *)
Sizes == [i \in 1..(K + 2) |-> i - 1]

(***************************************************************************)
(* queryMrc(cacheSizes) is a footprint curve: the summed footprint never  *)
(* falls as the cache size grows, and a cache at least as large as the     *)
(* window holds every distinct key of every class (the clamp of the size   *)
(* to each class's n keeps the lookup inside fp).                          *)
(***************************************************************************)
QueryFootprintMonotone ==
  \A q \in {QueryFootprint(window, Sizes)} :
    /\ \A i \in 1..(Len(q) - 1) : q[i].num * q[i + 1].den <= q[i + 1].num * q[i].den
    /\ q[Len(q)].num = q[Len(q)].den *
         MapThenSumSet(LAMBDA c : Cardinality(ToSet(ClassKeys(window, c))), Present(window))

(***************************************************************************)
(* The inputs of solveSlabReallocation a rebalancer may pass: allocsPerSlab *)
(* for every class (0 is skipped by queryMrc) and a current allocation of  *)
(* up to MaxSlabs slabs for any subset of the classes.                     *)
(***************************************************************************)
ApsInputs == [Classes -> 0..2]

CurInputs == UNION {[S -> 0..MaxSlabs] : S \in SUBSET Classes}

(* Every allocation of budget slabs over the classes S.                    *)
AllocationsOf(S, budget) ==
  {a \in [S -> 0..budget] : MapThenSumSet(LAMBDA c : a[c], S) = budget}

(***************************************************************************)
(* The DP of solveSlabReallocation is optimal and conserves the budget:    *)
(* its allocation covers the MRC classes and the current ones, gives the   *)
(* whole budget sum(currentAllocation) to the classes of the MRC view, and *)
(* no allocation of that budget over them has fewer misses.                *)
(***************************************************************************)
SolverOptimal ==
  \A aps \in ApsInputs, cur \in CurInputs :
    \A data \in {QueryMrc(window, aps, Total(cur))},
       r \in {SolveSlabReallocation(window, aps, cur)} :
      LET budget == Total(cur)
      IN  data # <<>> =>
            /\ DOMAIN r.opt = DOMAIN data \cup DOMAIN cur
            /\ Total(r.opt) = budget
            /\ \A c \in DOMAIN r.opt \ DOMAIN data : r.opt[c] = 0
            /\ \A a \in AllocationsOf(DOMAIN data, budget) :
                 MissesOf(data, r.opt) <= MissesOf(data, a)

(* The allocation reached by moving one slab from v to r for each pair.    *)
ApplyPlan(alloc, plan) ==
  FoldLeft(LAMBDA a, p : [a EXCEPT ![p[1]] = @ - 1, ![p[2]] = @ + 1], alloc, plan)

(***************************************************************************)
(* Whatever order std::sort leaves equal-score victims in, applying every   *)
(* (victim, receiver) pair of the plan to the current allocation, one slab  *)
(* each, yields exactly the optimal allocation: no slab is lost, none is    *)
(* moved twice and no receiver is left short (spec.md 4.C.4, property 7).  *)
(***************************************************************************)
PlanRealizesOptimal ==
  \A aps \in ApsInputs, cur \in CurInputs :
    \A r \in {SolveSlabReallocation(window, aps, cur)} :
      r.opt # <<>> =>
        \A plan \in r.plans :
          ApplyPlan(WithZeros(cur, DOMAIN r.opt), plan) = r.opt

(***************************************************************************)
(* spec.md 8, property 6: the new total miss rate of solveSlabReallocation *)
(* is never above the old one (both have the same denominator, the         *)
(* window's accesses).  mrOld sums n_c * missRatio(currentSlabAllocation)  *)
(* over the classes of the current allocation only; spec.md 4.C.2 sums it  *)
(* over the MRC view, an absent class holding 0 slabs and missing always.  *)
(***************************************************************************)
MrNewNotWorse ==
  \A aps \in ApsInputs, cur \in CurInputs :
    \A r \in {SolveSlabReallocation(window, aps, cur)} : r.mrNew.num <= r.mrOld.num
=============================================================================
