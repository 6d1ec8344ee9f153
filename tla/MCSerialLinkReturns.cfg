CONSTANTS
  Procs = {p1}
  p1 = p1
  Requests <- PlainRequests
  Packet = 28
SPECIFICATION FairSpec
CHECK_DEADLOCK FALSE
PROPERTY ProcessCommandReturns
