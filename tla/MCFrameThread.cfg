\* Three threads, so that a drain has threads to skip; as many packets, and one
\* update_thread_context that may fail.  The client need not go on.
SPECIFICATION Spec
CONSTANTS
  ThreadCount = 3
  MaxPackets = 3
  MaxFlushes = 0
  MaxFailures = 1
  Kinds <- AllKinds
INVARIANTS
  TypeOK
  Assertions
  NoFrameLost
  HwaccelAlone
PROPERTIES
  FramesInOrder
