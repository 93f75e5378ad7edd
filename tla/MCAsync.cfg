\* A file longer than the ring, so that it fills up, drops what was read and is
\* left by seeks both ways; a short seek ends up to a byte beyond it.
SPECIFICATION FairSpec
CONSTANTS
  Capacity = 3
  ReadBack = 2
  ShortSeek = 2
  Chunk = 2
  FileSize = 7
  MaxRead = 2
INVARIANTS
  TypeOK
  RingMatches
  ReadCorrect
PROPERTIES
  CallReturns
