SPECIFICATION MCSpec
CONSTANTS
  W = 8
  H = 4
  BWORDS = 3
  IWORDS = 1
  META = 8
  NDIRECT_BLOCKS = 1
  NINDIRECT_BLOCKS = 5
  BIGDATA = 9
  NDENTRIES = 4
  NBYTES_PER_BLOCK = 2
  NUM_FDESCS = 1
  Proc = {p1, p2}
  Targets = {"a", "b", ".."}
  Names <- MCNames
  BigName = "8MB.dat"
  Modes = {"O_RDWR"}
  Buffers <- MCBuffers
  Lengths = {1}
  Offsets <- MCOffsets
  CrashIn = {"idle", "mkdir", "touch", "rm", "rmdir", "fwrite", "fwrite_end"}
  Unsafe = {}
CHECK_DEADLOCK FALSE
INVARIANT BlocksUnshared
