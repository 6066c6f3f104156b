SPECIFICATION Spec
CONSTANTS
  CPUs = {h0}
  NPROC = 3
  TIMESLICE_HIGH = 1
  TIMESLICE_MEDIUM = 1
  TIMESLICE_LOW = 2
  STARVATION_THRESHOLD = 3
  NoCPU = NoCPU
  NoProc = NoProc
INVARIANTS SliceMatchesLevel IdleMeansNoWork
 
