CONSTANTS
  p1 = p1
  p2 = p2
  Procs <- MCProcs
  MaxCommands = 3
  MaxFaults = 1
SPECIFICATION Spec
INVARIANTS TypeOK SuccessMeansDone TogetherTheyLeaveAWhole Repairable
PROPERTIES OnlyTheServiceHoldsUp
CHECK_DEADLOCK FALSE
