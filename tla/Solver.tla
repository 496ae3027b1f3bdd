------------------------------- MODULE Solver -------------------------------
(***************************************************************************)
(* FootprintMRC::solveSlabReallocation (src/unnamed/part_000, first copy): *)
(* the slab budget, the MRC query, the knapsack DP over the classes in     *)
(* ascending id order, the walk back through the choice table, the miss    *)
(* rates before and after, and the (victim, receiver) reassignment plan.   *)
(* Class ids are naturals, as ClassId is a small integer in the code.      *)
(* Misses are exact integers (see FootprintAnalyzer), so the cost n * mr   *)
(* of the code's cost table is the number of misses itself.                *)
(***************************************************************************)
EXTENDS FootprintAnalyzer

(* The infinity of the DP table: no real cost is negative.                 *)
Inf == -1

(* The sum of the values of a map from classes to naturals.                *)
Total(f) == MapThenSumSet(LAMBDA c : f[c], DOMAIN f)

(* The sorted sequence of a set of class ids.                              *)
Ascending(S) == SetToSortSeq(S, <)

(***************************************************************************)
(* One row of F and B: F[i][j] is the least misses of the first i classes *)
(* with j slabs; B[i][j] the smallest k reaching it (the strict < of the  *)
(* k loop keeps the first minimum).  k only ranges over the columns where  *)
(* row i-1 is finite.                                                      *)
(***************************************************************************)
DpRow(prev, cost, budget) ==
  [j \in 0..budget |->
     LET ks     == {k \in 0..Min({j, budget}) : prev[j - k].f # Inf}
         Val(k) == prev[j - k].f + cost[k]
     IN  IF ks = {} THEN [f |-> Inf, b |-> 0]
         ELSE LET k == CHOOSE k \in ks : \A k2 \in ks :
                         Val(k) < Val(k2) \/ (Val(k) = Val(k2) /\ k <= k2)
              IN  [f |-> Val(k), b |-> k]]

(* A variant of OptimalAllocation whose walk never lowers remainingSlabs. *)
OptimalAllocationNoDecrement(data, ids, budget) ==
  LET N == Len(ids)
      Cost(i, k) == GetMisses(data[ids[i]], Min({k, budget}))
      T[i \in 0..N] ==
        IF i = 0 THEN [j \in 0..budget |-> [f |-> IF j = 0 THEN 0 ELSE Inf, b |-> 0]]
        ELSE DpRow(T[i - 1], [k \in 0..budget |-> Cost(i, k)], budget)
      RECURSIVE Walk(_, _, _)
      Walk(i, rem, acc) ==
        IF i = 0 THEN acc ELSE Walk(i - 1, rem, acc @@ (ids[i] :> T[i][rem].b))
  IN  Walk(N, budget, <<>>)

(* The optimal allocation of budget slabs over the classes ids (a          *)
(* sequence) with MRC data data: fill the table, then walk back from       *)
(* (numClasses, budget), each class taking B[i][remaining].                *)
OptimalAllocation(data, ids, budget) ==
  LET N == Len(ids)
      Cost(i, k) == GetMisses(data[ids[i]], Min({k, budget}))
      T[i \in 0..N] ==
        IF i = 0 THEN [j \in 0..budget |-> [f |-> IF j = 0 THEN 0 ELSE Inf, b |-> 0]]
        ELSE DpRow(T[i - 1], [k \in 0..budget |-> Cost(i, k)], budget)
      RECURSIVE Walk(_, _, _)
      Walk(i, rem, acc) ==
        IF i = 0 THEN acc
        ELSE Walk(i - 1, rem - T[i][rem].b, acc @@ (ids[i] :> T[i][rem].b))
  IN  Walk(N, budget, <<>>)

(* A map extended with 0 on the classes S it lacks.                        *)
WithZeros(f, S) == [c \in DOMAIN f \cup S |-> IF c \in DOMAIN f THEN f[c] ELSE 0]

(* Misses of allocation a over the classes it shares with the MRC data.    *)
MissesOf(data, a) ==
  MapThenSumSet(LAMBDA c : GetMisses(data[c], a[c]), DOMAIN a \cap DOMAIN data)

(***************************************************************************)
(* The victim pressure of the sort: accesses per current slab, or          *)
(* numeric_limits<double>::max() without both.  Less is the comparator.    *)
(***************************************************************************)
Score(data, cur, c) ==
  IF c \in DOMAIN data /\ c \in DOMAIN cur /\ cur[c] > 0
    THEN [max |-> FALSE, num |-> data[c].n, den |-> cur[c]]
    ELSE [max |-> TRUE, num |-> 0, den |-> 1]

Less(a, b) ==
  IF a.max \/ b.max THEN ~a.max /\ b.max ELSE a.num * b.den < b.num * a.den

(* A variant of Repeat that pushes each class one time too few.           *)
RepeatOneShort(ids, count) ==
  FlattenSeq([i \in 1..Len(ids) |-> [j \in 1..(count[ids[i]] - 1) |-> ids[i]]])

(* Each class of ids repeated count[c] times, in the order of ids.         *)
Repeat(ids, count) ==
  FlattenSeq([i \in 1..Len(ids) |-> [j \in 1..count[ids[i]] |-> ids[i]]])

(* Every order std::sort may leave the victims in: a permutation sorted by *)
(* the comparator (std::sort is not stable, so ties come in any order).    *)
SortedVictims(v, data, cur) ==
  {s \in [1..Len(v) -> ToSet(v)] :
     /\ ToBag(s) = ToBag(v)
     /\ \A i \in 1..(Len(v) - 1) : ~Less(Score(data, cur, s[i + 1]), Score(data, cur, s[i]))}

(***************************************************************************)
(* The plans of solveSlabReallocation: the victim queue (the slabs each   *)
(* class gives up) and the receiver queue (the slabs each gains), both in  *)
(* ascending class order, the victims sorted by score, zipped.             *)
(***************************************************************************)
Plans(data, cur, opt) ==
  LET cur0      == WithZeros(cur, DOMAIN opt)
      order     == Ascending(DOMAIN opt)
      victims   == Repeat(order, [c \in DOMAIN opt |-> IF opt[c] < cur0[c] THEN cur0[c] - opt[c] ELSE 0])
      receivers == Repeat(order, [c \in DOMAIN opt |-> IF opt[c] > cur0[c] THEN opt[c] - cur0[c] ELSE 0])
      Pairs(v)    == [i \in 1..Min({Len(v), Len(receivers)}) |-> <<v[i], receivers[i]>>]
  IN  {Pairs(v) : v \in SortedVictims(victims, data, cur)}

(* The result once the MRC view data and the optimal allocation opt are    *)
(* known: mrOld and mrNew as fractions of the window's accesses.           *)
Result(data, cur, opt) ==
  LET total == MapThenSumSet(LAMBDA c : data[c].n, DOMAIN data)
  IN  [mrOld |-> [num |-> MissesOf(data, cur), den |-> total],
       mrNew |-> [num |-> MissesOf(data, opt), den |-> total],
       opt   |-> opt,
       plans |-> Plans(data, cur, opt),
       freq  |-> [c \in DOMAIN data |-> data[c].n]]

(***************************************************************************)
(* solveSlabReallocation(allocsPerSlab, currentAllocation).  The result    *)
(* holds mrOld and mrNew, the optimal allocation (zero-filled over the MRC *)
(* classes and the current ones), the set of plans (one per order the      *)
(* victim sort may leave) and the access frequencies.  The MRC view and    *)
(* the allocation are bound by \in, so that they are computed once.        *)
(***************************************************************************)
Zero == [mrOld |-> [num |-> 0, den |-> 1], mrNew |-> [num |-> 0, den |-> 1],
         opt |-> <<>>, plans |-> {<<>>}, freq |-> <<>>]

SolveSlabReallocation(w, aps, cur) ==
  LET budget == Total(cur)
  IN  CHOOSE r \in
        {IF data = <<>> \/ (budget = 0 /\ DOMAIN aps = {}) THEN Zero
         ELSE CHOOSE res \in
                {Result(data, cur, opt) :
                   opt \in {WithZeros(OptimalAllocation(data, Ascending(DOMAIN data), budget),
                                      DOMAIN data \cup DOMAIN cur)}} : TRUE
         : data \in {QueryMrc(w, aps, budget)}} : TRUE
=============================================================================
