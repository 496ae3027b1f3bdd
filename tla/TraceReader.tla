----------------------------- MODULE TraceReader -----------------------------
(***************************************************************************)
(* The readers of oracleGeneral binary traces in src/slab-rebalance-bench/ *)
(* tools/wss_zstd_calc.cpp: the C++ ZstdReader (lines 12-157) that         *)
(* wss_zstd_calc's main drives, and the C reader of                        *)
(* OracleGeneralBinaryZstdTraceReader (lines 273-459) that the             *)
(* oracle_trace_reader's main drives.  Both pull 24-byte records out of a  *)
(* zstd stream through an input buffer that is refilled from the file and  *)
(* an output buffer that is compacted (memmove) before each call of        *)
(* ZSTD_decompressStream.                                                  *)
(*                                                                         *)
(* Bytes are counted, not stored: a record is identified by the offset of  *)
(* its first byte in the decompressed stream.  Sizes are scaled: R stands  *)
(* for the 24 bytes of a record, BlockMax for ZSTD_BLOCKSIZE_MAX, the      *)
(* output buffer holds 2 * BlockMax (ZSTD_DStreamOutSize() * 2) and a      *)
(* refill reads InSize compressed bytes (ZSTD_DStreamInSize()).            *)
(***************************************************************************)
EXTENDS Naturals, Sequences, SequencesExt, FiniteSets

CONSTANTS
  R,          \* bytes of a record (24)
  BlockMax,   \* decoded bytes of a zstd block at most
  MaxCSize,   \* compressed bytes of a block at most
  InSize,     \* bytes one refill reads from the file
  CkSize,     \* bytes of the frame's content checksum
  GiB,        \* the file size unit of wss_zstd_calc's sampling factor
  Objs,       \* object ids of the trace's requests
  MaxRecs,    \* records of a trace at most
  MaxBlocks,  \* blocks of a frame at most
  Checksums,  \* whether frames carry a content checksum
  Impls       \* the programs run: "wss" and "oracle"

ASSUME /\ R \in Nat \ {0} /\ BlockMax \in Nat \ {0} /\ MaxCSize \in Nat \ {0}
       /\ InSize >= MaxCSize /\ CkSize \in Nat \ {0} /\ GiB \in Nat \ {0}
       /\ Checksums \subseteq BOOLEAN /\ Impls \subseteq {"wss", "oracle"}

OutCap == 2 * BlockMax

Min2(a, b) == IF a < b THEN a ELSE b

VARIABLES
  impl,       \* the program
  zst,        \* the trace file is zstd-compressed (its name holds ".zst")
  recs,       \* the trace: a sequence of [id, size] requests
  blocks,     \* its frame: a sequence of blocks [cs, ds]
  checksum,   \* the frame ends with a content checksum
  rd,         \* the reader's buffers and the decoder
  returned,   \* stream offsets of the records the reader returned, in order
  done,       \* the reader has reported the end of the trace
  totalBytes, totalRequests, sampled   \* wss_zstd_calc's counters

vars == <<impl, zst, recs, blocks, checksum, rd, returned, done,
          totalBytes, totalRequests, sampled>>

-----------------------------------------------------------------------------
(***************************************************************************)
(* ZSTD_decompressStream, from the contract libzstd documents.  The frame  *)
(* is a sequence of units: its blocks, then the checksum, which decodes to *)
(* nothing.  A call first flushes the decoded bytes it still holds; if     *)
(* they do not all fit it returns.  Otherwise it loads the next unit from  *)
(* the input (keeping a partial one), decodes a whole one into its own     *)
(* buffer and goes on.  It returns the bytes of input used and of output   *)
(* produced.                                                               *)
(***************************************************************************)
FrameUnits(bs, ck) == IF ck THEN Append(bs, [cs |-> CkSize, ds |-> 0]) ELSE bs

DecoderInit == [unit |-> 0, loaded |-> 0, pending |-> 0]

RECURSIVE DecompressStream(_, _, _, _)
DecompressStream(units, d, avail, free) ==
  LET fl == Min2(d.pending, free)
      d1 == [d EXCEPT !.pending = @ - fl]
  IN  IF d1.pending > 0 \/ d1.unit = Len(units)
        THEN [dec |-> d1, used |-> 0, out |-> fl]
        ELSE LET u    == units[d1.unit + 1]
                 take == Min2(u.cs - d1.loaded, avail)
             IN  IF d1.loaded + take < u.cs
                   THEN [dec |-> [d1 EXCEPT !.loaded = @ + take], used |-> take, out |-> fl]
                   ELSE LET x == DecompressStream(units,
                                   [unit |-> d1.unit + 1, loaded |-> 0, pending |-> u.ds],
                                   avail - take, free - fl)
                        IN  [dec |-> x.dec, used |-> take + x.used, out |-> fl + x.out]

-----------------------------------------------------------------------------
Units == FrameUnits(blocks, checksum)

FileBytes ==
  IF zst THEN FoldSeq(LAMBDA u, acc : u.cs + acc, 0, Units) ELSE R * Len(recs)

(* The record whose bytes start at stream offset at; a read that is not   *)
(* aligned to a record gets bytes of two records, taken as a nonzero size. *)
RecAt(at) ==
  IF at % R = 0 /\ at \div R < Len(recs) THEN recs[at \div R + 1]
  ELSE [id |-> CHOOSE o \in Objs : TRUE, size |-> 1]

(* ZstdReader(compressed) and open(path): empty buffers, a fresh stream.   *)
ReaderInit ==
  [fpos |-> 0, zinSize |-> 0, zinPos |-> 0, zoutPos |-> 0, readPos |-> 0,
   dec |-> DecoderInit, status |-> "OK", emitted |-> 0]

(* createZstdReader: empty input and output buffers, read position 0,     *)
(* status OK, a stream after ZSTD_initDStream.  (Its allocation failures  *)
(* return NULL and end the program before any read.)                      *)
CreateZstdReader ==
  [fpos |-> 0, zinSize |-> 0, zinPos |-> 0, zoutPos |-> 0, readPos |-> 0,
   dec |-> DecoderInit, status |-> "OK", emitted |-> 0]

(* A variant of Compact that moves the bytes but keeps the read position.  *)
CompactKeepReadPos(s) == [s EXCEPT !.zoutPos = @ - s.readPos]

(* A variant of Compact that drops the unread bytes.                       *)
CompactDropUnread(s) == [s EXCEPT !.zoutPos = 0, !.readPos = 0]

(* The memmove at the head of decompress and decompressFromBuffer: the     *)
(* unread output moves to the front of the buffer.                         *)
Compact(s) == [s EXCEPT !.zoutPos = @ - s.readPos, !.readPos = 0]

(* The call of ZSTD_decompressStream on the buffers.                       *)
RunDecoder(s) ==
  LET x == DecompressStream(Units, s.dec, s.zinSize - s.zinPos, OutCap - s.zoutPos)
  IN  [s EXCEPT !.dec = x.dec, !.zinPos = @ + x.used,
                !.zoutPos = @ + x.out, !.emitted = @ + x.out]

(* ZstdReader::refill_in: read up to a buffer of input; none is the end.   *)
RefillIn(s) ==
  LET r == Min2(InSize, FileBytes - s.fpos)
  IN  [s EXCEPT !.fpos = @ + r, !.zinSize = r, !.zinPos = 0,
                !.status = IF r = 0 THEN "EOF" ELSE @]

(* ZstdReader::decompress: compact, refill an exhausted input (its end is  *)
(* the end of the stream), decompress.                                     *)
Decompress(s) ==
  LET c == Compact(s)
      f == IF c.zinPos = c.zinSize THEN RefillIn(c) ELSE c
  IN  IF c.zinPos = c.zinSize /\ f.zinSize = 0
        THEN [st |-> f, ok |-> FALSE]
        ELSE [st |-> RunDecoder(f), ok |-> TRUE]

(* ZstdReader::read_bytes: an uncompressed file is read directly; from a   *)
(* compressed one, decompress until n bytes are buffered.                  *)
RECURSIVE ReadBytes(_, _)
ReadBytes(s, n) ==
  IF ~zst
    THEN LET g == Min2(n, FileBytes - s.fpos)
         IN  [st |-> [s EXCEPT !.fpos = @ + g], n |-> IF g = n THEN n ELSE 0, at |-> s.fpos]
  ELSE IF s.readPos + n > s.zoutPos
    THEN LET d == Decompress(s)
         IN  IF d.ok THEN ReadBytes(d.st, n) ELSE [st |-> d.st, n |-> 0, at |-> 0]
  ELSE [st |-> [s EXCEPT !.readPos = @ + n], n |-> n,
        at |-> s.emitted - (s.zoutPos - s.readPos)]

(* A variant of read_one_req that takes a record of size 0 for the end.    *)
ReadOneReqStopAtZero(s) ==
  LET b == ReadBytes(s, R)
  IN  IF b.n # R \/ RecAt(b.at).size = 0 THEN [st |-> b.st, ok |-> FALSE, at |-> 0]
      ELSE [st |-> b.st, ok |-> TRUE, at |-> b.at]

(* ZstdReader::read_one_req: read a record; one of size 0 is skipped.      *)
RECURSIVE ReadOneReq(_)
ReadOneReq(s) ==
  LET b == ReadBytes(s, R)
  IN  IF b.n # R THEN [st |-> b.st, ok |-> FALSE, at |-> 0]
      ELSE IF RecAt(b.at).size = 0 THEN ReadOneReq(b.st)
      ELSE [st |-> b.st, ok |-> TRUE, at |-> b.at]

-----------------------------------------------------------------------------
(* readFromFile: a short read marks the end of the file.  (An I/O error,   *)
(* ferror, is not modelled.)                                               *)
ReadFromFile(s) ==
  LET r == Min2(InSize, FileBytes - s.fpos)
  IN  [s EXCEPT !.fpos = @ + r, !.zinSize = r, !.zinPos = 0,
                !.status = IF r < InSize THEN "EOF" ELSE @]

(* decompressFromBuffer: compact; with the input used up, read the file,   *)
(* and nothing read is the end; decompress.                                *)
DecompressFromBuffer(s) ==
  LET c == Compact(s)
      f == IF c.zinPos >= c.zinSize THEN ReadFromFile(c) ELSE c
  IN  IF c.zinPos >= c.zinSize /\ f.zinSize = 0
        THEN [st |-> f, ok |-> FALSE]
        ELSE [st |-> RunDecoder(f), ok |-> TRUE]

(* zstdReaderReadBytes and readBytesZstd: decompress until nByte bytes are *)
(* buffered; the end of the stream returns no bytes.                       *)
RECURSIVE ZstdReaderReadBytes(_, _)
ZstdReaderReadBytes(s, n) ==
  IF s.readPos + n > s.zoutPos
    THEN LET d == DecompressFromBuffer(s)
         IN  IF d.ok THEN ZstdReaderReadBytes(d.st, n) ELSE [st |-> d.st, n |-> 0, at |-> 0]
    ELSE [st |-> [s EXCEPT !.readPos = @ + n], n |-> n,
          at |-> s.emitted - (s.zoutPos - s.readPos)]

(* oracleGeneralBinReadOneReq: no record is the end (valid = false);       *)
(* reading forward, a record of size 0 is skipped.                         *)
RECURSIVE OracleGeneralBinReadOneReq(_)
OracleGeneralBinReadOneReq(s) ==
  LET b == ZstdReaderReadBytes(s, R)
  IN  IF b.n = 0 THEN [st |-> b.st, ok |-> FALSE, at |-> 0]
      ELSE IF RecAt(b.at).size = 0 THEN OracleGeneralBinReadOneReq(b.st)
      ELSE [st |-> b.st, ok |-> TRUE, at |-> b.at]

-----------------------------------------------------------------------------
(* wss_zstd_calc's sampling factor: 21 above 5 GiB, 11 above 1 GiB.       *)
ScalingFactor ==
  IF FileBytes > 5 * GiB THEN 21 ELSE IF FileBytes > GiB THEN 11 ELSE 1

(* A trace and its frame: the blocks decode to the trace's bytes.  An      *)
(* uncompressed file has no frame; the C reader reads compressed ones.     *)
Traces == UNION {[1..n -> [id : Objs, size : {0, 1}]] : n \in 0..MaxRecs}

Frames(len) ==
  {bs \in BoundedSeq([cs : 1..MaxCSize, ds : 1..BlockMax], MaxBlocks) :
     FoldSeq(LAMBDA b, acc : b.ds + acc, 0, bs) = len}

Init ==
  /\ impl \in Impls
  /\ zst \in IF impl = "wss" THEN BOOLEAN ELSE {TRUE}
  /\ recs \in Traces
  /\ blocks \in IF zst THEN Frames(R * Len(recs)) ELSE {<<>>}
  /\ checksum \in IF zst THEN Checksums ELSE {FALSE}
  /\ rd = IF impl = "wss" THEN ReaderInit ELSE CreateZstdReader
  /\ returned = <<>>
  /\ done = FALSE
  /\ totalBytes = 0 /\ totalRequests = 0 /\ sampled = <<>>

(***************************************************************************)
(* One iteration of wss_zstd_calc's loop: read a request, count it, and    *)
(* unless its hash (std::hash<uint64_t>, the identity) is sampled out,     *)
(* record its size under the hash.  The end of the trace ends the loop.    *)
(***************************************************************************)
WssStep ==
  /\ impl = "wss" /\ ~done
  /\ \E x \in {ReadOneReq(rd)} :
       /\ rd' = x.st
       /\ IF x.ok
            THEN LET req == RecAt(x.at)
                 IN  /\ returned' = Append(returned, x.at)
                     /\ totalBytes' = totalBytes + req.size
                     /\ totalRequests' = totalRequests + 1
                     /\ sampled' = IF ScalingFactor > 1 /\ req.id % ScalingFactor # 0
                                     THEN sampled ELSE (req.id :> req.size) @@ sampled
                     /\ UNCHANGED done
            ELSE /\ done' = TRUE
                 /\ UNCHANGED <<returned, totalBytes, totalRequests, sampled>>
  /\ UNCHANGED <<impl, zst, recs, blocks, checksum>>

(* One iteration of oracle_trace_reader's loop over the records, in the   *)
(* modes that convert every record (-m, or an output file) and with no    *)
(* record limit; the default mode prints the first record and stops.      *)
OracleStep ==
  /\ impl = "oracle" /\ ~done
  /\ \E x \in {OracleGeneralBinReadOneReq(rd)} :
       /\ rd' = x.st
       /\ IF x.ok THEN returned' = Append(returned, x.at) /\ UNCHANGED done
                  ELSE done' = TRUE /\ UNCHANGED returned
  /\ UNCHANGED <<impl, zst, recs, blocks, checksum, totalBytes, totalRequests, sampled>>

Next == WssStep \/ OracleStep

Spec == Init /\ [][Next]_vars

-----------------------------------------------------------------------------
TypeOK ==
  /\ rd.readPos <= rd.zoutPos /\ rd.zoutPos <= OutCap
  /\ rd.zinPos <= rd.zinSize /\ rd.fpos <= FileBytes
  /\ returned \in Seq(Nat) /\ done \in BOOLEAN

(* The stream offsets of the records a reader should return: those of     *)
(* nonzero size, in order.                                                 *)
Expected ==
  LET kept == SelectSeq([j \in 1..Len(recs) |-> j], LAMBDA j : recs[j].size # 0)
  IN  [i \in DOMAIN kept |-> (kept[i] - 1) * R]

(***************************************************************************)
(* Whatever the block sizes and refill boundaries, the records a reader    *)
(* has returned are, in order, the first nonzero-size records of the       *)
(* trace: the memmove of the unread bytes, the refill of an exhausted      *)
(* input and the read position never skip, repeat or misalign a record.   *)
(***************************************************************************)
ReturnedIsPrefix == IsPrefix(returned, Expected)

(***************************************************************************)
(* When a reader reports the end of the trace, it has returned every       *)
(* nonzero-size record: the totals wss_zstd_calc prints and the records    *)
(* oracle_trace_reader converts are those of the whole trace.              *)
(***************************************************************************)
ReadsWholeTrace == done => returned = Expected
====
