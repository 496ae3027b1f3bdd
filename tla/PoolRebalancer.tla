--------------------------- MODULE PoolRebalancer ---------------------------
(***************************************************************************)
(* PoolRebalancer::tryRebalancing (src/cachelib/allocator/                 *)
(* PoolRebalancer.cpp) for one pool, driven by the LAMA strategy, which    *)
(* asks FootprintMRC::solveSlabReallocation (module Solver) for a plan     *)
(* over the profiler's window.  The pool is the slab count and the free    *)
(* allocations of each class and the slabs no class holds yet.             *)
(*                                                                         *)
(* Collaborators whose code is not in the repository are modelled from     *)
(* their contract: the allocator (a free slab goes to a class; items are   *)
(* allocated and freed), CacheBase::releaseSlab (one slab leaves the       *)
(* victim for the receiver, or for the pool when the receiver is invalid;  *)
(* it may throw, and work() then ends the round) and the strategy's        *)
(* pickVictimAndReceiver (the plan of solveSlabReallocation for the        *)
(* pool's current allocation).  Timing, statistics, logging and the        *)
(* strategy's isThrashing are left out.                                    *)
(***************************************************************************)
EXTENDS Solver

CONSTANTS
  K, Keys, Classes,     \* the profiler's window, as in AccessWindowSpec
  Aps,                  \* allocsPerSlab of each class (never 0)
  NumSlabs,             \* the slabs of the pool
  FreeAllocThreshold,   \* freeAllocThreshold_
  MaxThrows             \* bound on the rounds a release ends by throwing

ASSUME Aps \in [Classes -> Nat \ {0}]

VARIABLES
  window, alloc, unallocated, freeAllocs,
  turn,     \* flips with each tryRebalancing call
  throws,   \* rounds ended by an exception so far
  last      \* what the last call planned and did

vars == <<window, alloc, unallocated, freeAllocs, turn, throws, last>>

W == INSTANCE AccessWindowSpec WITH Queriers <- {}, view <- <<>>

(* Slab::kInvalidClassId (ClassId is int8_t).                              *)
Invalid == -1

Pool == [alloc |-> alloc, unallocated |-> unallocated, freeAllocs |-> freeAllocs]

Init ==
  /\ window = <<>>
  /\ alloc = [c \in Classes |-> 0]
  /\ unallocated = NumSlabs
  /\ freeAllocs = [c \in Classes |-> 0]
  /\ turn = FALSE
  /\ throws = 0
  /\ last = [ran |-> FALSE, before |-> [c \in Classes |-> 0],
              opt |-> [c \in Classes |-> 0], complete |-> FALSE]

(***************************************************************************)
(* pickVictimByFreeAlloc: over the class ids in ascending order, the first *)
(* class whose free allocations fill more slabs than both the threshold    *)
(* and every class before it (the running maximum starts at 1).            *)
(***************************************************************************)
PickVictimByFreeAlloc(fa) ==
  LET Step(acc, id) ==
        LET free == fa[id] \div Aps[id]
        IN  IF free > FreeAllocThreshold /\ free > acc.max
              THEN [max |-> free, id |-> id] ELSE acc
  IN  FoldLeft(Step, [max |-> 1, id |-> Invalid], Ascending(Classes)).id

(***************************************************************************)
(* CacheBase::releaseSlab(pid, victim, receiver, kRebalance): one slab of  *)
(* the victim, with the free allocations it holds (as many as a slab can), *)
(* goes to the receiver, whose allocations in it are all free, or back to  *)
(* the pool for an invalid receiver.                                       *)
(***************************************************************************)
ReleaseSlab(p, v, r) ==
  LET fv == p.freeAllocs[v] - Min({p.freeAllocs[v], Aps[v]})
      a1 == [p.alloc EXCEPT ![v] = @ - 1]
      f1 == [p.freeAllocs EXCEPT ![v] = fv]
  IN  IF r = Invalid
        THEN [alloc |-> a1, unallocated |-> p.unallocated + 1, freeAllocs |-> f1]
        ELSE [alloc |-> [a1 EXCEPT ![r] = @ + 1], unallocated |-> p.unallocated,
              freeAllocs |-> [f1 EXCEPT ![r] = @ + Aps[r]]]

(* A variant of ApplyPairs that releases a slab of each pair's receiver    *)
(* into its victim.                                                        *)
ApplyPairsSwapped(p, pairs) ==
  FoldLeft(LAMBDA q, pr : IF pr[1] # Invalid /\ pr[2] # Invalid
                            THEN ReleaseSlab(q, pr[2], pr[1]) ELSE q,
           p, pairs)

(* The loop over victimReceiverPairs: release the pairs whose ids are both *)
(* valid, in order.                                                        *)
ApplyPairs(p, pairs) ==
  FoldLeft(LAMBDA q, pr : IF pr[1] # Invalid /\ pr[2] # Invalid
                            THEN ReleaseSlab(q, pr[1], pr[2]) ELSE q,
           p, pairs)

SetPool(p) ==
  /\ alloc' = p.alloc /\ unallocated' = p.unallocated /\ freeAllocs' = p.freeAllocs

(***************************************************************************)
(* tryRebalancing.  With a threshold, release one slab of the free-alloc   *)
(* victim to the pool; stop unless every slab is allocated; otherwise run  *)
(* the strategy and release one slab per pair of its plan.  An empty plan  *)
(* leaves the context's victim invalid, and the call returns.  A release   *)
(* that throws ends the round: work() catches the exception, so only the   *)
(* first k pairs take effect.                                              *)
(***************************************************************************)
TryRebalancing ==
  /\ turn' = ~turn
  /\ UNCHANGED window
  /\ \E ctx \in {PickVictimByFreeAlloc(freeAllocs)} :
     \E p1 \in {IF FreeAllocThreshold > 0 /\ ctx # Invalid
                  THEN ReleaseSlab(Pool, ctx, Invalid) ELSE Pool} :
       IF p1.unallocated # 0
         THEN /\ SetPool(p1)
              /\ last' = [last EXCEPT !.ran = FALSE]
              /\ UNCHANGED throws
         ELSE \E r \in {SolveSlabReallocation(window, Aps, p1.alloc)} :
              \E plan \in r.plans, k \in 0..NumSlabs :
                /\ k <= Len(plan)
                /\ k < Len(plan) => throws < MaxThrows
                /\ throws' = IF k < Len(plan) THEN throws + 1 ELSE throws
                /\ SetPool(ApplyPairs(p1, SubSeq(plan, 1, k)))
                /\ last' = [ran |-> plan # <<>>, before |-> p1.alloc,
                            opt |-> IF r.opt = <<>> THEN p1.alloc
                                    ELSE [c \in Classes |-> r.opt[c]],
                            complete |-> k = Len(plan)]

(***************************************************************************)
(* work(): for each regular pool (here the one pool) take the pool's       *)
(* strategy, or the default one, and call tryRebalancing inside one try    *)
(* block; an exception is logged and ends the call.                        *)
(***************************************************************************)
Work == TryRebalancing

(* publicWork(request_id): the synchronous entry point, the same loop with *)
(* findRebalanceStrategyForPool; request_id only reaches the statistics    *)
(* and the log.                                                            *)
PublicWork == TryRebalancing

(* A request thread's feed of the profiler.                                *)
Feed(a) ==
  /\ window' = W!Slide(window, a)
  /\ UNCHANGED <<alloc, unallocated, freeAllocs, turn, throws, last>>

(* The allocator gives one of the pool's free slabs to class c.           *)
AllocateSlab(c) ==
  /\ unallocated > 0
  /\ alloc' = [alloc EXCEPT ![c] = @ + 1]
  /\ unallocated' = unallocated - 1
  /\ freeAllocs' = [freeAllocs EXCEPT ![c] = @ + Aps[c]]
  /\ UNCHANGED <<window, turn, throws, last>>

(* An item of class c is allocated from, or freed to, its slabs.          *)
Allocate(c) ==
  /\ freeAllocs[c] > 0
  /\ freeAllocs' = [freeAllocs EXCEPT ![c] = @ - 1]
  /\ UNCHANGED <<window, alloc, unallocated, turn, throws, last>>

Free(c) ==
  /\ freeAllocs[c] < alloc[c] * Aps[c]
  /\ freeAllocs' = [freeAllocs EXCEPT ![c] = @ + 1]
  /\ UNCHANGED <<window, alloc, unallocated, turn, throws, last>>

(* The request threads and the allocator.                                  *)
Env ==
  \/ \E a \in W!Access : Feed(a)
  \/ \E c \in Classes : AllocateSlab(c) \/ Allocate(c) \/ Free(c)

Next == Work \/ PublicWork \/ Env

(***************************************************************************)
(* The rebalancer is a PeriodicWorker: work() is called again and again.   *)
(* Work is enabled in every state (a call without every slab allocated     *)
(* returns, and a round may always release its whole plan), so its weak    *)
(* fairness WF_vars(Work) is []<><<Work>>_vars, stated in that form so     *)
(* that TLC does not evaluate ENABLED through the solver.                  *)
(***************************************************************************)
Spec == Init /\ [][Next]_vars /\ []<><<Work>>_vars

-----------------------------------------------------------------------------
TypeOK ==
  /\ alloc \in [Classes -> 0..NumSlabs] /\ unallocated \in 0..NumSlabs
  /\ \A c \in Classes : freeAllocs[c] \in 0..(alloc[c] * Aps[c])
  /\ turn \in BOOLEAN /\ throws \in 0..MaxThrows

Between(x, a, b) == (a <= x /\ x <= b) \/ (b <= x /\ x <= a)

(***************************************************************************)
(* A round of tryRebalancing that runs the strategy moves every class from *)
(* its slab count toward the optimal allocation of solveSlabReallocation,  *)
(* never past it, whichever release throws; a round whose releases all     *)
(* succeed leaves the pool exactly at the optimal allocation, the pool's   *)
(* slabs conserved.                                                        *)
(***************************************************************************)
RebalanceMovesTowardOptimal ==
  [][turn' # turn /\ last'.ran =>
       /\ \A c \in Classes : Between(alloc'[c], last'.before[c], last'.opt[c])
       /\ last'.complete => alloc' = last'.opt
       /\ Total(alloc') + unallocated' = NumSlabs]_vars

(* The allocation solveSlabReallocation targets for the current window     *)
(* and allocation (the allocation itself when the window is empty).        *)
Target ==
  LET r == SolveSlabReallocation(window, Aps, alloc)
  IN  IF r.opt = <<>> THEN alloc ELSE [c \in Classes |-> r.opt[c]]

(***************************************************************************)
(* Rebalancing settles: unless requests and the allocator keep acting,     *)
(* the periodic rounds bring the pool to the optimal allocation for its    *)
(* window and keep it there, once releases stop throwing; the only other   *)
(* way to rest is a slab the free-alloc release returned to the pool,      *)
(* which stops the strategy until the allocator hands it out.  A plan      *)
(* that moved slabs the wrong way, or an optimum that depended on the      *)
(* allocation it starts from, would keep the slabs moving.                 *)
(***************************************************************************)
RebalanceConverges ==
  []<><<Env>>_vars \/ <>[](unallocated # 0 \/ alloc = Target)
====
