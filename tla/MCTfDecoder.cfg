\* All setups on one size of queue; a drain whose end is lost waits for ever.
SPECIFICATION FairSpec
CONSTANTS
  InCap = 1
  Slack = 3
  MaxPkts = 5
  Setups <- ModestAndRough
  None = None
  EOS = EOS
CHECK_DEADLOCK FALSE
INVARIANTS
  TypeOK
  DeliveredInOrder
  CompleteAtEOF
  RoomInQueue
  RoomAfterAgain
PROPERTIES
  CallReturns
