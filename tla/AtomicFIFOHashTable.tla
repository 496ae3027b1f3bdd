------------------------ MODULE AtomicFIFOHashTable ------------------------
(***************************************************************************)
(* AtomicFIFOHashTable (src/cachelib/allocator/datastruct/                 *)
(* AtomicFIFOHashTable.h): the ghost FIFO of S3FIFO.  A table of 64-bit    *)
(* slots, grouped in buckets of nItemPerBucket_ slots; a slot holds        *)
(* key | (insertionTime << 32), 0 meaning empty.  insertionTime is the     *)
(* value of the insert counter numInserts_, and an entry whose age         *)
(* numInserts_ - insertionTime exceeds fifoSize_ is expired.               *)
(*                                                                         *)
(* Every caller (S3FIFOList) holds its mutex around each call, so the      *)
(* operations are atomic steps: they are operators from a table record to *)
(* a table record.  The relaxed atomics and the weak CAS never meet a     *)
(* competing access; the model takes the CAS to succeed, as it does on     *)
(* hardware without spurious failure.  numEvicts_ is a statistic nobody    *)
(* reads and is left out.                                                  *)
(*                                                                         *)
(* UIntMax stands for UINT32_MAX: keys and times are 32-bit fields, so a  *)
(* slot value is key + time * (UIntMax + 1).                               *)
(***************************************************************************)
EXTENDS Naturals, Integers, FiniteSets, FiniteSetsExt

CONSTANT UIntMax

ASSUME UIntMax \in Nat \ {0}

NItemPerBucket == 8   \* nItemPerBucket_ (bucketIdxMask_ clears the low 3 bits)
LoadFactorInv  == 2   \* loadFactorInv_

(* genHashtableVal, matchKey's masked key and getInsertionTime.           *)
Val(key, time) == key + time * (UIntMax + 1)
KeyOf(v)       == v % (UIntMax + 1)
TimeOf(v)      == v \div (UIntMax + 1)

(* ((fifoSize >> 3) + 1) << 3: the next multiple of 8 above fifoSize.      *)
Aligned(f) == (f \div 8 + 1) * 8

(* The default-constructed table: no slots (hashTable_ is null).          *)
Uninitialized == [fifoSize |-> 0, numElem |-> 0, slots |-> <<>>, numInserts |-> 0]

initialized(t) == t.slots # <<>>

setFIFOSize(t, f) ==
  [t EXCEPT !.fifoSize = Aligned(f), !.numElem = Aligned(f) * LoadFactorInv]

initHashtable(t) == [t EXCEPT !.slots = [i \in 0..t.numElem - 1 |-> 0]]

(* getBucketIdx: key % numElem_ with the low bits cleared.                *)
getBucketIdx(numElem, key) ==
  LET r == key % numElem IN r - (r % NItemPerBucket)

BucketOf(numElem, key) ==
  getBucketIdx(numElem, key)..(getBucketIdx(numElem, key) + NItemPerBucket - 1)

(***************************************************************************)
(* insert: take the counter (numInserts_++), restart it at 0 when the     *)
(* taken value passes UINT32_MAX, store into the first empty slot of the   *)
(* bucket, or overwrite slot key % numElem_ when the bucket is full.       *)
(***************************************************************************)
insert(t, key) ==
  LET wrap == t.numInserts > UIntMax
      now  == IF wrap THEN 0 ELSE t.numInserts
      free == {i \in BucketOf(t.numElem, key) : t.slots[i] = 0}
      at   == IF free # {} THEN Min(free) ELSE key % t.numElem
  IN  [t EXCEPT !.numInserts = IF wrap THEN 0 ELSE @ + 1,
                !.slots[at]  = Val(key, now)]

(***************************************************************************)
(* The test age > fifoSize_ of contains and resizeFIFO.  age is an        *)
(* int64_t and fifoSize_ a size_t, so age is converted to unsigned 64 bits *)
(* before the comparison: a negative age (an entry stamped before the     *)
(* counter wrapped, with a time above the current one) becomes            *)
(* 2^64 + age, above any fifoSize_, and the entry is expired.              *)
(***************************************************************************)
Expired(t, v, now) ==
  LET age == now - TimeOf(v) IN age < 0 \/ age > t.fifoSize

(* A variant of contains that never expires an old entry.                  *)
RECURSIVE ProbeNoExpiry(_, _, _, _)
ProbeNoExpiry(t, key, now, i) ==
  IF i = NItemPerBucket THEN [table |-> t, found |-> FALSE]
  ELSE LET s == getBucketIdx(t.numElem, key) + i
           v == t.slots[s]
       IN  IF v # 0 /\ KeyOf(v) = key
             THEN [table |-> [t EXCEPT !.slots[s] = 0], found |-> TRUE]
             ELSE ProbeNoExpiry(t, key, now, i + 1)

(***************************************************************************)
(* The loop of contains from slot i of the bucket on: skip an empty slot, *)
(* clear an expired one (Expired), and on the first live match     *)
(* clear it and return true: a ghost hit is consumed.                      *)
(***************************************************************************)
RECURSIVE Probe(_, _, _, _)
Probe(t, key, now, i) ==
  IF i = NItemPerBucket THEN [table |-> t, found |-> FALSE]
  ELSE LET s   == getBucketIdx(t.numElem, key) + i
           v   == t.slots[s]
       IN  CASE v = 0            -> Probe(t, key, now, i + 1)
             [] Expired(t, v, now) -> Probe([t EXCEPT !.slots[s] = 0], key, now, i + 1)
             [] KeyOf(v) = key   -> [table |-> [t EXCEPT !.slots[s] = 0], found |-> TRUE]
             [] OTHER            -> Probe(t, key, now, i + 1)

(* contains(key): the table after the call and its result.                 *)
contains(t, key) == Probe(t, key, t.numInserts, 0)

(* A variant of resizeFIFO that swaps in the new table and fifoSize_ but    *)
(* keeps the old numElem_.                                                 *)
resizeFIFOStaleNumElem(t, newFifoSize) ==
  LET f2   == Aligned(newFifoSize)
      n2   == f2 * LoadFactorInv
      Live(i) == t.slots[i] # 0 /\ ~Expired(t, t.slots[i], t.numInserts)
      RECURSIVE Move(_, _)
      Move(i, new) ==
        IF i = t.numElem THEN new
        ELSE IF ~Live(i) THEN Move(i + 1, new)
        ELSE LET free == {j \in BucketOf(n2, KeyOf(t.slots[i])) : new[j] = 0}
             IN  Move(i + 1, IF free = {} THEN new
                             ELSE [new EXCEPT ![Min(free)] = t.slots[i]])
  IN  [t EXCEPT !.slots = Move(0, [j \in 0..n2 - 1 |-> 0]), !.fifoSize = f2]

(***************************************************************************)
(* resizeFIFO: a new zeroed table for the aligned size; the entries of the *)
(* old one that have not expired under the old fifoSize_ move, in slot     *)
(* order, to the first empty slot of their new bucket, and are dropped     *)
(* when it is full.                                                        *)
(***************************************************************************)
resizeFIFO(t, newFifoSize) ==
  LET f2   == Aligned(newFifoSize)
      n2   == f2 * LoadFactorInv
      Live(i) == t.slots[i] # 0 /\ ~Expired(t, t.slots[i], t.numInserts)
      RECURSIVE Move(_, _)
      Move(i, new) ==
        IF i = t.numElem THEN new
        ELSE IF ~Live(i) THEN Move(i + 1, new)
        ELSE LET free == {j \in BucketOf(n2, KeyOf(t.slots[i])) : new[j] = 0}
             IN  Move(i + 1, IF free = {} THEN new
                             ELSE [new EXCEPT ![Min(free)] = t.slots[i]])
      zeros == [j \in 0..n2 - 1 |-> 0]
  IN  [t EXCEPT !.slots = IF initialized(t) THEN Move(0, zeros) ELSE zeros,
                !.fifoSize = f2, !.numElem = n2]
====
