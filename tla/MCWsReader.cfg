CONSTANTS
  Requests <- MCRequests
  Frames <- MCFrames
  Limit = 3
  Half = 6
  Patience = 2
  MaxFrames = 4
  Window = 1
SPECIFICATION Spec
INVARIANTS TypeOK MessagesAreThePeers LimitIsForMessages
PROPERTIES OnlyASilentPeerHoldsUp
CHECK_DEADLOCK FALSE
