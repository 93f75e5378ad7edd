\* A session that takes fewer frames than the rings have slots; more frames than
\* indices, so that they overflow; a flush, a close at any time, and a machine on
\* which stores may be seen out of order.
SPECIFICATION FairSpec
CONSTANTS
  IdxMod = 5
  NbBuffers = 3
  Depth = 2
  MaxFrames = 6
  MaxFlush = 1
  None = None
  NoElem = NoElem
INVARIANTS
  TypeOK
  NoOverrun
  PacketsInStep
  QueueAlive
PROPERTIES
  CallReturns
