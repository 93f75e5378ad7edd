\* Three threads that send and receive on a queue of two slots.  The indices
\* overflow at 3, so they wrap while the ring is full, empty and in between.
\* Symmetry would not be sound with the temporal properties.
SPECIFICATION FairSpec
CONSTANTS
  IdxMod = 3
  Cap = 2
  NoElem = NoElem
  Threads = {t1, t2, t3}
  Msgs = {m1}
  Errors = {EOF}
  NoError = NoError
  OK = OK
  EAGAIN = EAGAIN
  Idle = Idle
INVARIANTS
  TypeOK
  RingCoherent
  NoLostWakeup
PROPERTIES
  ImplementsQueue
  Progress
  ErrorUnblocks
