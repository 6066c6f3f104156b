SPECIFICATION Spec
CONSTANTS
  CPUs = {h0, h1}
  NPROC = 2
  TIMESLICE_HIGH = 4
  TIMESLICE_MEDIUM = 8
  TIMESLICE_LOW = 16
  STARVATION_THRESHOLD = 200
  NoCPU = NoCPU
  NoProc = NoProc
CHECK_DEADLOCK FALSE
INVARIANT NoDoubleRun
