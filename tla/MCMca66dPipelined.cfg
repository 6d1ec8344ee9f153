CONSTANTS
  Requests = {}
  Clients = {c1}
  c1 = c1
  Lines <- Pipelined
  Window = 3
  MaxLines = 3
  Whole = FALSE
SPECIFICATION Spec
CHECK_DEADLOCK FALSE
INVARIANT CommandsInOrder
INVARIANT OnlyCutReadsPanic
PROPERTY NothingInvented
