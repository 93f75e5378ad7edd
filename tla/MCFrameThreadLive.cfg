\* Two threads and three packets, so that a thread is used again before and
\* after a flush.
SPECIFICATION FairSpec
CONSTANTS
  ThreadCount = 2
  MaxPackets = 3
  MaxFlushes = 1
  MaxFailures = 0
  Kinds <- BlockingKinds
INVARIANTS
  ContextHandedOver
PROPERTIES
  CallReturns
