----------------------------- MODULE GhostFIFO -----------------------------
(***************************************************************************)
(* The ghost table on its own: an S3FIFOList-like caller, holding its      *)
(* mutex, calls insert, contains and resizeFIFO on a table built by the    *)
(* explicit constructor AtomicFIFOHashTable(fifoSize).  since records, for *)
(* each key, how many inserts happened after its last insert: the ghost   *)
(* FIFO the table approximates holds the keys of the last fifoSize_        *)
(* inserts.  MaxInserts bounds the inserts of a behaviour.                 *)
(***************************************************************************)
EXTENDS AtomicFIFOHashTable

CONSTANTS Keys, FifoSizes, MaxInserts

ASSUME Keys \subseteq 0..UIntMax

Never == -1

VARIABLES
  table,     \* the AtomicFIFOHashTable object
  inserts,   \* inserts done so far (bounded by MaxInserts)
  since,     \* inserts since the last insert of each key, or Never
  last       \* the last call: [op, key, found]

vars == <<table, inserts, since, last>>

Init ==
  /\ \E f \in FifoSizes : table = initHashtable(setFIFOSize(Uninitialized, f))
  /\ inserts = 0
  /\ since = [k \in Keys |-> Never]
  /\ last = [op |-> "none", key |-> 0, found |-> FALSE]

Insert(k) ==
  /\ inserts < MaxInserts
  /\ table' = insert(table, k)
  /\ inserts' = inserts + 1
  /\ since' = [j \in Keys |-> IF j = k THEN 0 ELSE IF since[j] = Never THEN Never ELSE since[j] + 1]
  /\ last' = [op |-> "insert", key |-> k, found |-> FALSE]

Contains(k) ==
  LET r == contains(table, k)
  IN  /\ table' = r.table
      /\ last' = [op |-> "contains", key |-> k, found |-> r.found]
      /\ UNCHANGED <<inserts, since>>

Resize(f) ==
  /\ table' = resizeFIFO(table, f)
  /\ last' = [op |-> "resize", key |-> 0, found |-> FALSE]
  /\ UNCHANGED <<inserts, since>>

Next ==
  \/ \E k \in Keys : Insert(k) \/ Contains(k)
  \/ \E f \in FifoSizes : Resize(f)

Spec == Init /\ [][Next]_vars

-----------------------------------------------------------------------------
TypeOK ==
  /\ table.slots \in [0..table.numElem - 1 -> Nat]
  /\ table.numInserts \in 0..UIntMax + 1
  /\ since \in [Keys -> {Never} \cup 0..MaxInserts]

(***************************************************************************)
(* A ghost hit is recent: when contains(k) returns true, k was inserted    *)
(* among the last fifoSize_ inserts.  This is what lets S3FIFOList::add    *)
(* put a re-admitted key straight into the main queue.                     *)
(***************************************************************************)
HitIsRecent ==
  (last.op = "contains" /\ last.found) =>
    since[last.key] # Never /\ since[last.key] < table.fifoSize

(***************************************************************************)
(* A key just inserted is in the table: contains(k) right after insert(k) *)
(* returns true (the entry is in its bucket, or in slot key % numElem_).  *)
(***************************************************************************)
InsertedIsFound ==
  [][(last.op = "insert" /\ last'.op = "contains" /\ last'.key = last.key) => last'.found]_vars
====
