SPECIFICATION Spec
CONSTANTS
  Tasks = {t1, t2}
  Main = main
  Cells = 2
  Values = {"default", "den"}
  Default = "default"
  Lost = lost
  Pieces = 2
  Buffer = 2
  Sent = 3
  Erases = TRUE
  MaxExchanges = 2
  MaxRequests = 3
  MaxCuts = 2
INVARIANTS
  TypeOK
  FormIsMine
PROPERTIES
  ImplementsStore
  OnlyTheClientHoldsUp
CHECK_DEADLOCK FALSE
