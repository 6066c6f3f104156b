CONSTANTS
  Layers = {"names"}
  Procs = {p1, p2}
  NoProc = NoProc
  NINODES = 3
  Scenarios <- Small
  FileOf <- Inodes
  NBLOCKS = 3
  BSIZE = 2
  NDIRECT = 1
  MAXOPBLOCKS = 6
  Length <- LengthOf
SPECIFICATION FsSpec
SYMMETRY Symmetry
INVARIANT NoPanic
