\* Two threads on a ring of four tasks; one frame more than tasks, and fewer
\* buffers than frames, so that tasks and buffers are used again.
SPECIFICATION FairSpec
CONSTANTS
  MaxBuffers = 3
  Threads <- TwoWorkersAndMain
  ThreadCount = 2
  MaxFrames = 5
  Unencodable = {2}
  None = None
INVARIANTS
  TypeOK
  PoolSafe
  PacketsInOrder
PROPERTIES
  CallReturns
