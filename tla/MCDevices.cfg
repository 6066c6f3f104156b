CONSTANTS
  Procs = {p1, p2, p3}
  Nobody = Nobody
  Handler = Handler
  NUM = 5
  CHAIN = 2
  Wrap = 5
  Sleepers = {s1, s2}
  TickWrap = 8
  MaxSleep = 3
SPECIFICATION DevicesSpec
SYMMETRY Symmetry
INVARIANTS DescriptorsOwned Transferred NoLostWakeup SleepsItsTicks
