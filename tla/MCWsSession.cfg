CONSTANTS
  Requests = {}
  Threads <- Goroutines
  MessageOps <- MessageCalls
  ControlOps <- ControlCalls
  MaxParts = 1
  MaxCalls = 4
  Messages <- MCMessages
  Half = 1
  MaxTime = 4
  Window = 1
  MaxFrames = 2
SPECIFICATION Spec
CHECK_DEADLOCK FALSE
INVARIANT TypeOK
INVARIANT SilentPeersAreClosed
INVARIANT GivesUpOnTheDeadOnly
INVARIANT LastFrameIsLast
PROPERTY CloseIsDeserved
