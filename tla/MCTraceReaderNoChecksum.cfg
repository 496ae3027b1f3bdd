CONSTANTS
  R = 2
  BlockMax = 3
  MaxCSize = 2
  InSize = 3
  CkSize = 1
  GiB = 1
  Objs = {0, 1}
  MaxRecs = 4
  MaxBlocks = 3
  Checksums = {FALSE}
  Impls = {"wss", "oracle"}
SPECIFICATION Spec
CHECK_DEADLOCK FALSE
INVARIANT ReadsWholeTrace
