CONSTANTS
  Threads = {writer, reader}
  writer = writer
  reader = reader
  MessageOps <- OneWriter
  ControlOps <- Controls
  MaxParts = 2
  MaxCalls = 2
SPECIFICATION WriterFairSpec
CHECK_DEADLOCK FALSE
INVARIANT WriterTypeOK
PROPERTY ImplementsFrameStream
PROPERTY ControlsReturn
