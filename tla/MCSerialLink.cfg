CONSTANTS
  Procs = {p1, p2}
  p1 = p1
  p2 = p2
  Requests <- MixedRequests
  Packet = 42
SPECIFICATION FairSpec
CHECK_DEADLOCK FALSE
INVARIANT IInv
INVARIANT ShortReadsAreRaces
PROPERTY ImplementsCommandRun
PROPERTY EveryRunEnds
