CONSTANTS
  CPUs = {h0, h1}
  Locks = {1, 2}
  NoCPU = NoCPU
  MaxPush = 1
  Procs = {p1, p2}
  Blocks = {n1, n2, n3}
  Bufs = {b1, b2}
  Vals = {0, 1}
  InitVal = 0
  NoBlock = NoBlock
  NoBuf = NoBuf
  NoProc = NoProc
  Readers = {r1, r2}
  Writers = {w1}
  INPUT_BUF_SIZE = 2
  CharWrap = 4
  MaxRead = 2
SPECIFICATION LocksSpec
SYMMETRY Symmetry
INVARIANTS MutualExclusion NoPanic InterruptsRestored ReadsLast SleepersMustWait InputInOrder TransmitGoesOn
CHECK_DEADLOCK FALSE
