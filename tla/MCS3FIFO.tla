------------------------------- MODULE MCS3FIFO -------------------------------
(***************************************************************************)
(* Both S3FIFOLists of the repository behind the same container: the one  *)
(* of S3FIFOList.h ("current") and the older one kept in                   *)
(* AtomicFIFOHashTable.h ("older").  A behaviour runs one of them, chosen  *)
(* at the start, over three items, two of which share a key hash (a key    *)
(* cached again).                                                          *)
(***************************************************************************)
EXTENDS S3FIFOListOld

CONSTANTS n1, n2, n3

VARIABLE version   \* which S3FIFOList the container uses

allVars == <<varsOld, version>>

ThreeNodes == {n1, n2} \cup {n3}

Hashes == (n1 :> 1) @@ (n2 :> 2) @@ (n3 :> 1)

(* The current list takes no count of its eviction calls.                  *)
StepCurrent == version = "current" /\ Next /\ UNCHANGED <<evictions, version>>

StepOlder == version = "older" /\ NextOld /\ UNCHANGED version

InitBoth == InitOld /\ version \in {"current", "older"}

NextBoth == StepCurrent \/ StepOlder

(* The evicting thread holds mtx_ and runs, in either version.             *)
SpecBoth ==
  /\ InitBoth /\ [][NextBoth]_allVars
  /\ WF_allVars(version = "current" /\ EvictStep
                 /\ UNCHANGED <<evictions, version, restarts>>)
  /\ WF_allVars(version = "older" /\ EvictStepOld /\ UNCHANGED version)
====
