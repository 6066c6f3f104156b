CONSTANTS
  Readers = {r1}
  Writers = {w1, w2}
  Vals = {0, 1}
  InitVal = 0
  NoProc = NoProc
  PIPESIZE = 2
  Uint = 4
  MaxCount = 3
  Killable = {r1}
SPECIFICATION FairSpec
INVARIANTS NotUsedAfterFree
PROPERTIES IsFifo Progress
CHECK_DEADLOCK FALSE
