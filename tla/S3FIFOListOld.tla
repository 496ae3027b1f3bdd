---------------------------- MODULE S3FIFOListOld ----------------------------
(***************************************************************************)
(* The older S3FIFOList kept in src/cachelib/allocator/datastruct/         *)
(* AtomicFIFOHashTable.h (from line 238), driven by the same container     *)
(* operations.  add is the same; remove never writes the ghost table; the  *)
(* ghost table is created on the first eviction and never resized; and the *)
(* eviction scan puts the key of a probationary candidate into the ghost   *)
(* table when it picks it, before the caller has removed it.               *)
(***************************************************************************)
EXTENDS S3FIFOList

CONSTANT MaxEvictions   \* bound on the getEvictionCandidateRef calls

VARIABLE evictions      \* getEvictionCandidateRef calls so far

varsOld == <<vars, evictions>>

InitOld == Init /\ evictions = 0

(* remove: unlink from the list the main flag names.                       *)
ListRemoveOld(n) ==
  /\ IF n \in main
       THEN mfifo' = Remove(mfifo, n) /\ UNCHANGED pfifo
       ELSE pfifo' = Remove(pfifo, n) /\ UNCHANGED mfifo
  /\ UNCHANGED hist

(* Container::remove(node) and removeLocked over the older list.           *)
ContainerRemoveOld(n) ==
  /\ epc = "idle"
  /\ n \in inMM
  /\ ListRemoveOld(n)
  /\ prob' = prob \ {n} /\ main' = main \ {n}
  /\ accessed' = accessed \ {n} /\ inMM' = inMM \ {n}
  /\ UNCHANGED <<epc, cand, apc, accesses>>

(* getEvictionCandidateRef up to the loop: no candidate for empty lists;   *)
(* the ghost table is initialised once, with fifoSize listSize / 2.        *)
EvictBeginOld ==
  LET listSize == Len(pfifo) + Len(mfifo)
  IN  /\ epc = "idle"
      /\ evictions < MaxEvictions
      /\ evictions' = evictions + 1
      /\ IF listSize = 0
           THEN /\ cand' = [node |-> None, fromProb |-> FALSE]
                /\ UNCHANGED <<hist, epc>>
           ELSE /\ hist' = IF initialized(hist) THEN hist
                           ELSE initHashtable(setFIFOSize(hist, listSize \div 2))
                /\ epc' = "scan"
                /\ UNCHANGED cand
      /\ UNCHANGED <<pfifo, mfifo, prob, main, accessed, inMM, apc, accesses,
                     restarts>>

(* One iteration of the loop; a probationary candidate's key goes into the *)
(* ghost table as the candidate is returned.                               *)
EvictStepOld ==
  /\ EvictScan
  /\ hist' = IF epc' = "idle" /\ cand'.fromProb
               THEN insert(hist, Hash[cand'.node]) ELSE hist
  /\ UNCHANGED <<evictions, restarts>>

(* The older restoring constructor and saveState: the same as the         *)
(* current ones.                                                           *)
RestartOld == Restart /\ UNCHANGED evictions

NextOld ==
  \/ /\ \/ \E n \in Nodes : ContainerAdd(n) \/ ContainerRemoveOld(n) \/ AccessTest(n)
        \/ AccessMark
     /\ UNCHANGED <<evictions, restarts>>
  \/ EvictBeginOld
  \/ EvictStepOld
  \/ RestartOld

(* The evicting thread holds mtx_ and runs; nothing else is assumed fair. *)
SpecOld == InitOld /\ [][NextOld]_varsOld /\ WF_varsOld(EvictStepOld)
====
