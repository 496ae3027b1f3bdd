----------------------------- MODULE S3FIFOList -----------------------------
(***************************************************************************)
(* S3FIFOList (src/cachelib/allocator/datastruct/S3FIFOList.h) and the     *)
(* MMS3FIFO::Container operations that drive it (same file, from line      *)
(* 290).  Two intrusive FIFO lists, the probationary pfifo_ and the main   *)
(* mfifo_, with linkAtHead inserting at the head and eviction reading the  *)
(* tail; a ghost AtomicFIFOHashTable hist_ of the keys removed from the    *)
(* probationary list.  A list is a sequence, head first.  The node flags   *)
(* kMMFlag0 (probationary), kMMFlag2 (main), kMMFlag1 (accessed) and the   *)
(* in-container bit are sets of nodes.                                     *)
(*                                                                         *)
(* add, remove and getEvictionCandidateRef hold mtx_ for their whole run;  *)
(* recordAccess takes no lock, so its test and its mark interleave with    *)
(* the steps of the eviction scan, one loop iteration per step.  The       *)
(* container's tail bookkeeping (rebalanceTail, isTail, numTail_) is not   *)
(* part of the source and is left out; so are update times and counters.  *)
(***************************************************************************)
EXTENDS Naturals, Sequences, SequencesExt, AtomicFIFOHashTable

CONSTANTS
  Nodes,        \* the items
  Hash,         \* hashNode: the 32-bit hash of each item's key
  TailSize,     \* S3FIFOList::tailSize (0 unless setTailSize is called)
  MaxRestarts,  \* bound on the restarts of a behaviour
  MaxAccesses,  \* bound on the accesses recorded in a behaviour
  None          \* the null node pointer

ASSUME Hash \in [Nodes -> 0..UIntMax]

ASSUME None \notin Nodes

VARIABLES
  pfifo, mfifo,     \* pfifo_ and mfifo_, head first
  prob, main,       \* nodes with kMMFlag0 / kMMFlag2 set
  accessed,         \* nodes with kMMFlag1 set
  inMM,             \* nodes marked in the MM container
  hist,             \* hist_
  epc,              \* the evicting thread: "idle" or "scan" (holding mtx_)
  cand,             \* the CandidateRef it returned last
  apc,              \* the node recordAccess has tested and is about to mark
  accesses,         \* accesses recorded so far
  restarts          \* restarts so far

vars == <<pfifo, mfifo, prob, main, accessed, inMM, hist, epc, cand, apc, accesses,
          restarts>>

Init ==
  /\ pfifo = <<>> /\ mfifo = <<>>
  /\ prob = {} /\ main = {} /\ accessed = {} /\ inMM = {}
  /\ hist = Uninitialized
  /\ epc = "idle"
  /\ cand = [node |-> None, fromProb |-> FALSE]
  /\ apc = None
  /\ accesses = 0
  /\ restarts = 0

(* S3FIFOList::add: a ghost hit goes to the main list, anything else to the *)
(* probationary one.  The contains call consumes the ghost entry.           *)
ListAdd(n) ==
  LET r   == contains(hist, Hash[n])
      hit == initialized(hist) /\ r.found
  IN  /\ hist' = IF initialized(hist) THEN r.table ELSE hist
      /\ IF hit
           THEN /\ main' = main \cup {n} /\ prob' = prob \ {n}
                /\ mfifo' = <<n>> \o mfifo /\ UNCHANGED pfifo
           ELSE /\ prob' = prob \cup {n} /\ main' = main \ {n}
                /\ pfifo' = <<n>> \o pfifo /\ UNCHANGED mfifo

(* S3FIFOList::remove: unlink from the list the main flag names; a         *)
(* probationary node's key goes into the ghost table once it exists.       *)
ListRemove(n) ==
  IF n \in main
    THEN /\ mfifo' = Remove(mfifo, n) /\ UNCHANGED <<pfifo, hist>>
    ELSE /\ hist' = IF initialized(hist) THEN insert(hist, Hash[n]) ELSE hist
         /\ pfifo' = Remove(pfifo, n) /\ UNCHANGED mfifo

(* Container::add: refuse a node already in the container; otherwise      *)
(* qdlist_.add, unmarkAccessed, markInMMContainer.                         *)
ContainerAdd(n) ==
  /\ epc = "idle"
  /\ n \notin inMM
  /\ ListAdd(n)
  /\ accessed' = accessed \ {n}
  /\ inMM' = inMM \cup {n}
  /\ UNCHANGED <<epc, cand, apc, accesses>>

(* Container::remove(node), and remove(LockedIterator) of the evicting     *)
(* caller, through removeLocked: qdlist_.remove, then clear the            *)
(* probationary, main, accessed and in-container bits.                     *)
ContainerRemove(n) ==
  /\ epc = "idle"
  /\ n \in inMM
  /\ ListRemove(n)
  /\ prob' = prob \ {n} /\ main' = main \ {n}
  /\ accessed' = accessed \ {n} /\ inMM' = inMM \ {n}
  /\ UNCHANGED <<epc, cand, apc, accesses>>

(* recordAccess, first half: the node is in the container and not yet      *)
(* accessed.                                                               *)
AccessTest(n) ==
  /\ apc = None
  /\ accesses < MaxAccesses
  /\ n \in inMM /\ n \notin accessed
  /\ apc' = n
  /\ accesses' = accesses + 1
  /\ UNCHANGED <<pfifo, mfifo, prob, main, accessed, inMM, hist, epc, cand>>

(* recordAccess, second half: markAccessed.                                *)
AccessMark ==
  /\ apc # None
  /\ accessed' = accessed \cup {apc}
  /\ apc' = None
  /\ UNCHANGED <<pfifo, mfifo, prob, main, inMM, hist, epc, cand, accesses>>

(***************************************************************************)
(* getEvictionCandidateRef, up to the loop: an empty list returns no       *)
(* candidate; otherwise the ghost table is initialised on first use with   *)
(* fifoSize listSize / 2, and resized to it when the sizes differ by at    *)
(* least tailSize.                                                         *)
(***************************************************************************)
EvictBegin ==
  LET listSize == Len(pfifo) + Len(mfifo)
      fifoSize == listSize \div 2
      h1 == IF initialized(hist) THEN hist ELSE initHashtable(setFIFOSize(hist, fifoSize))
      d  == fifoSize - h1.fifoSize
  IN  /\ epc = "idle"
      /\ IF listSize = 0
           THEN /\ cand' = [node |-> None, fromProb |-> FALSE]
                /\ UNCHANGED <<hist, epc>>
           ELSE /\ hist' = IF (IF d < 0 THEN -d ELSE d) >= TailSize
                             THEN resizeFIFO(h1, fifoSize) ELSE h1
                /\ epc' = "scan"
                /\ UNCHANGED cand
      /\ UNCHANGED <<pfifo, mfifo, prob, main, accessed, inMM, apc, accesses>>

(* The probationary list is scanned while it holds more than pRatio_ =     *)
(* 0.05 of the nodes (exact for lists this small).                         *)
UsePFifo == Len(pfifo) * 20 > Len(pfifo) + Len(mfifo)

EvictScanNoUnlink ==
  LET curr == IF UsePFifo THEN Last(pfifo) ELSE Last(mfifo)
  IN  /\ epc = "scan"
      /\ \/ /\ curr \in accessed /\ UsePFifo
            /\ accessed' = accessed \ {curr}
            /\ prob' = prob \ {curr} /\ main' = main \cup {curr}
            /\ mfifo' = <<curr>> \o mfifo
            /\ UNCHANGED <<pfifo, epc, cand>>
         \/ /\ curr \in accessed /\ ~UsePFifo
            /\ accessed' = accessed \ {curr}
            /\ mfifo' = <<curr>> \o Remove(mfifo, curr)
            /\ UNCHANGED <<pfifo, prob, main, epc, cand>>
         \/ /\ curr \notin accessed
            /\ cand' = [node |-> curr, fromProb |-> UsePFifo]
            /\ epc' = "idle"
            /\ UNCHANGED <<pfifo, mfifo, prob, main, accessed>>
      /\ UNCHANGED <<inMM, apc, accesses>>

(***************************************************************************)
(* One iteration of the loop on the tail of the chosen list.  An accessed  *)
(* probationary tail loses its access bit, switches flags and moves to the *)
(* head of the main list; an accessed main tail loses its access bit and   *)
(* moves to the head of its list; an unaccessed tail is the candidate and  *)
(* the call returns, releasing mtx_.  The ghost table is the caller's.     *)
(***************************************************************************)
EvictScan ==
  LET curr == IF UsePFifo THEN Last(pfifo) ELSE Last(mfifo)
  IN  /\ epc = "scan"
      /\ \/ /\ curr \in accessed /\ UsePFifo
            /\ accessed' = accessed \ {curr}
            /\ prob' = prob \ {curr} /\ main' = main \cup {curr}
            /\ pfifo' = Remove(pfifo, curr) /\ mfifo' = <<curr>> \o mfifo
            /\ UNCHANGED <<epc, cand>>
         \/ /\ curr \in accessed /\ ~UsePFifo
            /\ accessed' = accessed \ {curr}
            /\ mfifo' = <<curr>> \o Remove(mfifo, curr)
            /\ UNCHANGED <<pfifo, prob, main, epc, cand>>
         \/ /\ curr \notin accessed
            /\ cand' = [node |-> curr, fromProb |-> UsePFifo]
            /\ epc' = "idle"
            /\ UNCHANGED <<pfifo, mfifo, prob, main, accessed>>
      /\ UNCHANGED <<inMM, apc, accesses>>

(* One iteration of the loop of getEvictionCandidateRef: the ghost table   *)
(* is only written by remove.                                              *)
EvictStep == EvictScan /\ UNCHANGED hist

(* S3FIFOList::saveState: each DList saves its head, tail and size; the    *)
(* links and flags live in the items, which outlast the process.           *)
SaveState == [pfifo |-> pfifo, mfifo |-> mfifo]

(* Container::saveState: the config's updateOnWrite and updateOnRead (the  *)
(* defaults, under which recordAccess is modelled) and the saved list.     *)
ContainerSaveState == [qdlist |-> SaveState]

(* A variant of the restoring constructor that rebuilds each list from the *)
(* other's saved state.                                                    *)
RestoreListSwapped(obj) ==
  /\ pfifo' = obj.mfifo /\ mfifo' = obj.pfifo
  /\ hist' = Uninitialized

(* The restoring constructor S3FIFOList(object, compressor): the two lists *)
(* are rebuilt from the saved object; hist_ is default-constructed,       *)
(* uninitialised, so the ghost history of the old process is gone.         *)
RestoreList(obj) ==
  /\ pfifo' = obj.pfifo /\ mfifo' = obj.mfifo
  /\ hist' = Uninitialized

(***************************************************************************)
(* A warm restart: Container::saveState, then the restoring constructor    *)
(* Container(object, compressor), whose qdlist_ is restored from the saved *)
(* list.  The items, with their flags, stay in the cache's memory.  The    *)
(* cache saves its state only after its workers and request threads have   *)
(* stopped, so no eviction scan and no recordAccess is in flight.          *)
(***************************************************************************)
Restart ==
  /\ restarts < MaxRestarts
  /\ epc = "idle" /\ apc = None
  /\ restarts' = restarts + 1
  /\ RestoreList(ContainerSaveState.qdlist)
  /\ cand' = [node |-> None, fromProb |-> FALSE]
  /\ UNCHANGED <<prob, main, accessed, inMM, epc, apc, accesses>>

Next ==
  \/ /\ \/ \E n \in Nodes : ContainerAdd(n) \/ ContainerRemove(n) \/ AccessTest(n)
        \/ AccessMark
        \/ EvictBegin
        \/ EvictStep
     /\ UNCHANGED restarts
  \/ Restart

(* The evicting thread holds mtx_ and runs; nothing else is assumed fair. *)
Spec == Init /\ [][Next]_vars /\ WF_vars(EvictStep /\ UNCHANGED restarts)

-----------------------------------------------------------------------------
TypeOK ==
  /\ pfifo \in Seq(Nodes) /\ mfifo \in Seq(Nodes)
  /\ {prob, main, accessed, inMM} \subseteq SUBSET Nodes
  /\ epc \in {"idle", "scan"}
  /\ cand \in [node : Nodes \cup {None}, fromProb : BOOLEAN]
  /\ apc \in Nodes \cup {None}

(***************************************************************************)
(* The two lists hold exactly the nodes in the container, each once, and   *)
(* a linked node's flags name its list: kMMFlag0 on the probationary list, *)
(* kMMFlag2 on the main list.  remove picks the list to unlink from by the *)
(* main flag, so a stale flag left by add, remove or the eviction scan     *)
(* would unlink from the wrong DList.                                      *)
(***************************************************************************)
QueuesMatchContainer ==
  /\ IsInjective(pfifo \o mfifo)
  /\ ToSet(pfifo \o mfifo) = inMM
  /\ \A n \in ToSet(pfifo) : n \in prob /\ n \notin main
  /\ \A n \in ToSet(mfifo) : n \in main /\ n \notin prob

====
