CONSTANTS
  Requests = {}
  Clients = {c1, c2}
  c1 = c1
  c2 = c2
  Lines <- OneByOne
  Window = 1
  MaxLines = 2
  Whole = TRUE
SPECIFICATION FairSpec
CHECK_DEADLOCK FALSE
INVARIANT TypeOK
PROPERTY ImplementsCommandServer
PROPERTY LinesAreAnswered
