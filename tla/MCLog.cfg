CONSTANTS
  Procs = {p1, p2}
  Blocks = {b1, b2, b3, b4}
  Vals = {0, 1}
  InitVal = 0
  Torn = Torn
  MAXOPBLOCKS = 2
  LOGBLOCKS = 4
  NBUF = 4
SPECIFICATION Spec
INVARIANTS RoomReserved SleepersMustWait
PROPERTY Atomic
SYMMETRY Symmetry
