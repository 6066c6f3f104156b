SPECIFICATION Spec
CONSTANTS
  CPUs = {h0, h1}
  NPROC = 2
  TIMESLICE_HIGH = 1
  TIMESLICE_MEDIUM = 1
  TIMESLICE_LOW = 2
  STARVATION_THRESHOLD = 3
  NoCPU = NoCPU
  NoProc = NoProc
SYMMETRY Harts
CHECK_DEADLOCK FALSE
INVARIANTS RunningIsCurrent DoubleRunOnlyAfterExpiry
