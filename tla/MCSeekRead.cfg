SPECIFICATION Spec
CONSTANTS
  t1 = t1
  t2 = t2
  None = None
  Threads = {t1, t2}
  Paths = {p}
  Compressible = {p}
  Contents <- MCContents
  Exact = {"a", "c"}
  DefaultSize = 2
  ReversibleSize = 1
  AskedSizes = {0}
  MinSize = 2
  MaxSize = 2
  EntropySizes = {1, 3}
  MaxBundle = 2
  Kinds = {"stream", "large", "compressed", "holographic", "delete", "read_file", "read_range", "read_holographic", "decode"}
  Pieces = {1, 4}
  SeekOffsets = {0, 1, 2}
  MaxCalls = 3
  MaxReads = 2
INVARIANTS
  SeekExact
CHECK_DEADLOCK FALSE
SYMMETRY MCSymmetry
