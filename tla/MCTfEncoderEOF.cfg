\* A session that still works when the client ends the stream.
SPECIFICATION Spec
CONSTANTS
  IdxMod = 8
  NbBuffers = 3
  Depth = 1
  MaxFrames = 2
  MaxFlush = 0
  None = None
  NoElem = NoElem
INVARIANTS
  CompleteAtEOF
