CONSTANTS
  NPROC = 3
  MaxPid = 4
  KillPids = {2, 3}
  Users = {1, 2}
  NPAGES = 18
  Programs <- Executables
  MaxArgs = 2
  MaxCalls = 4
  Sessions <- SmallSessions
  MaxTokens = 5
  NFILE = 5
  NOFILE = 5
  MAXARGS = 4
SPECIFICATION ProcSpec
INVARIANTS OffStack ParentAlive KilledOnRequest PagesAccounted MemoryPrivate ParsesAsMeant Plumbed EofArrives
PROPERTIES ZombiesReaped CallsAtomic
CHECK_DEADLOCK FALSE
